---- MODULE Spec2Model ----
(***************************************************************************)
(* Seller execution node of the agent marketplace: the in-memory task      *)
(* repository and execution service (seller_template), the x402 payment    *)
(* middleware and the fixed-window rate-limit middleware (xy_market), and  *)
(* the middleware stack create_app builds around the route handlers.       *)
(*                                                                         *)
(* Optional Python values (None or a value) are sets: {} is None and {v}   *)
(* is the value v.  Time is in whole seconds.                              *)
(***************************************************************************)
EXTENDS Integers, Sequences, FiniteSets, TLC

VARIABLES
    tasks,      \* TaskRepository._tasks: task_id -> Task
    workers,    \* ExecutionService._background_tasks: task_id -> worker coroutine state
    now,        \* wall clock, seconds
    nextSweep,  \* time at which cleanup_loop wakes from asyncio.sleep
    lastOp,     \* the request the latest step served and its response, until returned
    raised,     \* history: task_id -> the exception its runner raised
    payCfg,     \* X402PaymentMiddleware: facilitator configured or not, tool_pricing
    pay,        \* the request X402PaymentMiddleware.dispatch is serving
    rateCfg,    \* RateLimitMiddleware: limits and window_seconds
    counters,   \* RateLimitMiddleware.counters: key -> (count, window_start)
    clock,      \* time.time() as the rate limiter reads it, seconds
    accepted,   \* history: the requests the rate limiter let through
    rateOut,    \* what RateLimitMiddleware.dispatch did with the latest request
    middleware, \* app.user_middleware as create_app leaves it, outermost first
    flight,     \* the request travelling through the middleware stack
    inflight,   \* the request handlers running concurrently on the event loop
    agents,     \* JsonAgentRepository._agents: agent_id -> AgentProfile, in insertion order
    disk,       \* the file of JsonAgentRepository
    faults,     \* history: the writes of the file that have failed
    answered200, \* history: the registration requests that were answered 200
    marketOut,  \* the latest call of the registry and what it raised or answered
    reg,        \* RegistrationService: its settings, _registered and the call of register
    lifespan,   \* the seller's lifespan: serving, shutting down or over, and its janitor
    repoCall,   \* the latest call of TaskRepository and the table it found
    creates,    \* the create_agent calls running concurrently, and who holds _lock
    poller      \* BuyerSDK.poll_task_status: its arguments, the polls made and what it returned

taskVars == <<tasks, workers, now, nextSweep, lastOp, raised>>

payVars == <<payCfg, pay>>

rateVars == <<rateCfg, counters, clock, accepted, rateOut>>

stackVars == <<middleware, flight>>

concVars == <<inflight>>

marketVars == <<agents, disk, faults, answered200, marketOut>>

regVars == <<reg>>

lifeVars == <<lifespan>>

repoVars == <<repoCall>>

createVars == <<creates>>

pollVars == <<poller>>

vars == <<taskVars, payVars, rateVars, stackVars, concVars, marketVars, regVars, lifeVars, repoVars, createVars, pollVars>>

\* What the steps of one component leave alone
notTaskVars == <<payVars, rateVars, stackVars, concVars, marketVars, regVars, lifeVars, repoVars, createVars, pollVars>>
notPayVars == <<taskVars, rateVars, stackVars, concVars, marketVars, regVars, lifeVars, repoVars, createVars, pollVars>>
notRateVars == <<taskVars, payVars, stackVars, concVars, marketVars, regVars, lifeVars, repoVars, createVars, pollVars>>
notStackVars == <<concVars, marketVars, regVars, lifeVars, repoVars, createVars, pollVars>>
notConcVars == <<taskVars, payVars, stackVars, marketVars, regVars, lifeVars, repoVars, createVars, pollVars>>
notMarketVars == <<taskVars, payVars, rateVars, stackVars, concVars, regVars, lifeVars, repoVars, createVars, pollVars>>
notMarketAppVars == <<taskVars, payVars, stackVars, concVars, regVars, lifeVars, repoVars, createVars, pollVars>>
notRegVars == <<taskVars, payVars, rateVars, stackVars, concVars, marketVars, lifeVars, repoVars, createVars, pollVars>>
notLifeVars == <<payVars, rateVars, stackVars, concVars, marketVars, regVars, repoVars, createVars, pollVars>>
notRepoVars == <<payVars, rateVars, stackVars, concVars, marketVars, regVars, lifeVars, createVars, pollVars>>
notCreateVars == <<taskVars, payVars, rateVars, stackVars, concVars, regVars, lifeVars, repoVars, pollVars>>
notPollVars == <<taskVars, payVars, rateVars, stackVars, concVars, marketVars, regVars, lifeVars, repoVars, createVars>>

----------------------------------------------------------------------------
(* Bounds of the task model *)

MaxTasks == 2
MaxTicks == 2

\* uuid4 values: a task id is fresh, the i-th task created gets the i-th id
TaskId(i) == <<"t", i>>
TaskIds == {TaskId(i) : i \in 1..MaxTasks}
UnknownId == <<"t", 0>>
\* ... and the i-th buyer secret; a caller may also present any other string
BuyerSecret(i) == <<"s", i>>
WrongSecret == <<"s", 0>>
Secrets == {BuyerSecret(i) : i \in 1..MaxTasks} \cup {WrongSecret}
Contents == {"ok"}
Tools == {"search"}
\* Exception classes a runner may raise, and the text of the exception
ExcTypes == {"ValueError", "CancelledError"}
ExcTexts == {"boom"}

(* Program constants *)

DefaultDeadlineSeconds == 300
CleanupIntervalSeconds == 600

\* deadline_seconds arguments: None, 0 and an override
DeadlineInputs == {{}, {0}, {CleanupIntervalSeconds}}
\* the clock advances in steps of the default deadline
TickSeconds == DefaultDeadlineSeconds
MaxTime == MaxTicks * TickSeconds

----------------------------------------------------------------------------
(* seller_template.db.models.Task and its conversion to the envelope *)

NewTask(secret, created, expires) ==
    [buyer_secret |-> secret,
     status |-> "in_progress",
     created_at |-> created,
     expires_at |-> expires,
     result |-> {},
     error |-> {},
     execution_time_ms |-> {},
     tools_used |-> {}]

\* A dict is a record naming its keys.
\* data["tools_used"] = self.tools_used, when the dict has no such key
WithTools(data, tools) ==
    IF "tools_used" \in data.keys THEN data
    ELSE [data EXCEPT !.keys = @ \cup {"tools_used"}, !.tools_used = tools]

\* "self.result if self.result else {}" for a result that is None
EmptyData(tools) ==
    [keys |-> {"tools_used"}, result |-> "", tools_used |-> tools]

\* to_execution_result writes the key into the dict it reads, which is the
\* stored result when there is one: the task as the conversion leaves it
Converted(task) ==
    IF task.result = {} THEN task
    ELSE [task EXCEPT !.result = {WithTools(CHOOSE r \in task.result : TRUE,
                                            task.tools_used)}]

ToExecutionResult(id, task) ==
    [task_id |-> id,
     buyer_secret |-> task.buyer_secret,
     status |-> task.status,
     created_at |-> task.created_at,
     deadline_at |-> task.expires_at,
     data |-> IF task.result = {} THEN EmptyData(task.tools_used)
              ELSE WithTools(CHOOSE r \in task.result : TRUE, task.tools_used),
     error |-> task.error,
     execution_time_ms |-> task.execution_time_ms]

----------------------------------------------------------------------------
(* TaskRepository *)

Deadline(d) ==
    IF d = {} THEN DefaultDeadlineSeconds
    ELSE LET v == CHOOSE x \in d : TRUE
         IN  IF v = 0 THEN DefaultDeadlineSeconds ELSE v

RepoCreateTask(tbl, id, secret, d, t) ==
    [x \in DOMAIN tbl \cup {id} |->
        IF x = id THEN NewTask(secret, t, t + Deadline(d)) ELSE tbl[x]]

\* Mutant: the secret is accepted when it is the secret of any stored task
GetTaskAnySecret(tbl, id, secret) ==
    IF id \in DOMAIN tbl /\ \E x \in DOMAIN tbl : tbl[x].buyer_secret = secret
    THEN {ToExecutionResult(id, tbl[id])}
    ELSE {}

\* Mutant: the secret is not compared at all
GetTaskNoSecretCheck(tbl, id, secret) ==
    IF id \in DOMAIN tbl THEN {ToExecutionResult(id, tbl[id])} ELSE {}

GetTask(tbl, id, secret) ==
    IF id \in DOMAIN tbl /\ tbl[id].buyer_secret = secret
    THEN {ToExecutionResult(id, tbl[id])}
    ELSE {}

\* The table as get_task leaves it
AfterGet(tbl, id, secret) ==
    IF id \in DOMAIN tbl /\ tbl[id].buyer_secret = secret
    THEN [tbl EXCEPT ![id] = Converted(@)]
    ELSE tbl

\* Mutant: a task that is done or failed is not updated again
UpdateTaskOnce(tbl, id, status, result, error, ms, tools) ==
    IF id \in DOMAIN tbl /\ tbl[id].status = "in_progress"
    THEN [tbl EXCEPT ![id] =
            [@ EXCEPT !.status = status,
                      !.result = result,
                      !.error = error,
                      !.execution_time_ms = ms,
                      !.tools_used = tools]]
    ELSE tbl

\* Mutant: an update of an id the table does not hold stores a task
UpdateTaskUpserts(tbl, id, status, result, error, ms, tools) ==
    [x \in DOMAIN tbl \cup {id} |->
        IF x = id
        THEN [(IF id \in DOMAIN tbl THEN tbl[id] ELSE NewTask(<<"s", 0>>, 0, 0))
                EXCEPT !.status = status,
                       !.result = result,
                       !.error = error,
                       !.execution_time_ms = ms,
                       !.tools_used = tools]
        ELSE tbl[x]]

UpdateTask(tbl, id, status, result, error, ms, tools) ==
    IF id \in DOMAIN tbl
    THEN [tbl EXCEPT ![id] =
            [@ EXCEPT !.status = status,
                      !.result = result,
                      !.error = error,
                      !.execution_time_ms = ms,
                      !.tools_used = tools]]
    ELSE tbl

DeadlineError ==
    [message |-> "Task deadline exceeded", type |-> "DeadlineExceeded"]

\* Mutant: a task is taken as expired only after its deadline has passed
ExpiredLate(task, t) == task.status = "in_progress" /\ t > task.expires_at

Expired(task, t) == task.status = "in_progress" /\ t >= task.expires_at

\* Mutant: every task past its deadline is failed, whatever its status
CleanupPastDeadline(tbl, t) ==
    [x \in DOMAIN tbl |->
        IF t >= tbl[x].expires_at
        THEN [tbl[x] EXCEPT !.status = "failed", !.error = {DeadlineError}]
        ELSE tbl[x]]

CleanupExpiredTasks(tbl, t) ==
    [x \in DOMAIN tbl |->
        IF Expired(tbl[x], t)
        THEN [tbl[x] EXCEPT !.status = "failed", !.error = {DeadlineError}]
        ELSE tbl[x]]

CleanedCount(tbl, t) == Cardinality({x \in DOMAIN tbl : Expired(tbl[x], t)})

----------------------------------------------------------------------------
(* ExecutionService: the background worker *)

\* What the runner (archivist_agent.ainvoke) does when the worker reaches it
RunnerOutcomes ==
    [kind : {"suspend"}, content : {""}, tools : {{}}, exc : {""}]
    \cup [kind : {"return"}, content : Contents, tools : SUBSET Tools, exc : {""}]
    \cup [kind : {"raise"}, content : ExcTexts, tools : {{}}, exc : ExcTypes]

\* isinstance(e, Exception): asyncio.CancelledError derives from BaseException
\* only, so "except Exception" does not catch it
IsException(exc) == exc # "CancelledError"

\* The exception leaves _execute_task_async
Escapes(out) == out.kind = "raise" /\ ~IsException(out.exc)

\* The exceptions raised so far, with the one of this run of the runner
Raised(log, id, out) ==
    IF out.kind = "raise"
    THEN [x \in DOMAIN log \cup {id} |->
            IF x = id THEN [type |-> out.exc, text |-> out.content] ELSE log[x]]
    ELSE log

\* How the worker coroutine ends
WorkerEnd(out) == IF Escapes(out) THEN "crashed" ELSE "finished"

\* Mutant: the result dict of the worker has no key tools_used
RunnerResultBare(content, tools) ==
    [keys |-> {"status", "message", "result"}, result |-> content, tools_used |-> {}]

RunnerResult(content, tools) ==
    [keys |-> {"status", "message", "result", "tools_used"},
     result |-> content, tools_used |-> tools]

\* Mutant: a failed run is put back to in_progress for a retry
WorkerUpdateRequeue(tbl, id, out, ms) ==
    IF out.kind = "return"
    THEN UpdateTask(tbl, id, "done", {RunnerResult(out.content, out.tools)},
                    {}, {ms}, out.tools)
    ELSE UpdateTask(tbl, id, "in_progress", {}, {}, {ms}, {})

\* Mutant: the error names the class caught, not the class raised
ErrorOfGeneric(out) == [message |-> out.content, type |-> "Exception"]

\* {"message": str(e), "type": type(e).__name__}
ErrorOf(out) == [message |-> out.content, type |-> out.exc]

\* The update the worker makes once the runner has returned or raised
WorkerUpdate(tbl, id, out, ms) ==
    IF out.kind = "return"
    THEN UpdateTask(tbl, id, "done", {RunnerResult(out.content, out.tools)},
                    {}, {ms}, out.tools)
    ELSE IF Escapes(out) THEN tbl
    ELSE UpdateTask(tbl, id, "failed", {}, {ErrorOf(out)}, {ms}, {})

\* The worker from its start (start_time = time.time()) to its first
\* suspension or its end
WorkerFirstRun(tbl, id, out) ==
    IF out.kind = "suspend"
    THEN [tasks |-> tbl, worker |-> "running"]
    ELSE [tasks |-> WorkerUpdate(tbl, id, out, 0), worker |-> WorkerEnd(out)]

\* Mutant: an eager task factory runs the coroutine inside create_task
SpawnRunsEagerlyOn == TRUE

\* asyncio.create_task schedules the coroutine; it does not run before the
\* creating coroutine suspends
SpawnRunsEagerly == FALSE

\* ExecutionService.create_task never suspends: asyncio.Lock.acquire returns
\* at once on a free lock, and no critical section of the repository awaits
CreateTask(tbl, id, secret, d, out, t) ==
    LET tbl1 == RepoCreateTask(tbl, id, secret, d, t)
        run == IF SpawnRunsEagerly
               THEN WorkerFirstRun(tbl1, id, out)
               ELSE [tasks |-> tbl1, worker |-> "spawned"]
    IN  [tasks |-> AfterGet(run.tasks, id, secret),
         worker |-> run.worker,
         result |-> GetTask(run.tasks, id, secret)]

----------------------------------------------------------------------------
(* Route handlers *)

\* A response: status code, error_code and message of the detail, body.
\* The message of an error names the task id the request carried.
ExecuteRoute(result, id) ==
    IF result = {}
    THEN [code |-> 500, error_code |-> "EXECUTION_FAILED",
          message |-> <<"Failed to create task", id>>, body |-> {}]
    ELSE [code |-> 202, error_code |-> "", message |-> << >>, body |-> result]

TasksRoute(result, id) ==
    IF result = {}
    THEN [code |-> 404, error_code |-> "TASK_NOT_FOUND",
          message |-> <<"Task not found or invalid secret", id>>, body |-> {}]
    ELSE [code |-> 200, error_code |-> "", message |-> << >>, body |-> result]

----------------------------------------------------------------------------
(* X402PaymentMiddleware (xy_market.middleware.x402) *)

FACILITATOR_VERIFY_MAX_RETRIES == 5
FACILITATOR_VERIFY_RETRY_DELAY_SECONDS == 1
MaxTimeoutSeconds == 60

OpNames == {"get_weather_forecast", "free_endpoint", "execute_task"}
\* the operations the pricing configuration lists
PricedOps == {"get_weather_forecast", "execute_task"}
NoName == "<none>"
Payee == "0xD23e"
Token == "0x8335"

\* ID_TO_NETWORK_NAME.get(chain_id): the chains x402 knows, None for others
NetworkName(chain_id) ==
    CASE chain_id = 8453 -> {"base"}
      [] chain_id = 84532 -> {"base-sepolia"}
      [] OTHER -> {}

PaymentOption(chain_id, amount) ==
    [chain_id |-> chain_id, token_address |-> Token, token_amount |-> amount]

\* tool_pricing.get(op): {} when the dict has no entry for op, else the list
\* of options of the entry
Priced(options) ==
    [op \in OpNames |-> IF op \in PricedOps THEN {options} ELSE {}]

\* The empty dict
Unpriced == [op \in OpNames |-> {}]

\* The last table has entries whose list of options is empty
PricingTables ==
    { Priced(<<PaymentOption(8453, 1000)>>),
      Priced(<<PaymentOption(1, 2000), PaymentOption(84532, 1000)>>),
      Priced(<<PaymentOption(8453, 1000), PaymentOption(84532, 3000)>>),
      Priced(<<PaymentOption(1, 2000)>>),
      Unpriced,
      Priced(<< >>) }

\* Values of a payment header: absent, the empty string, text that does not
\* decode to a PaymentPayload, and an encoded payload
HeaderKinds == {"absent", "empty", "garbage", "json", "base64"}

Header(kind, scheme, network) ==
    [kind |-> kind, scheme |-> scheme, network |-> network]

Headers ==
    { Header("absent", "", ""), Header("empty", "", ""), Header("garbage", "", ""),
      Header("json", "exact", "base"),
      Header("base64", "exact", "base"),
      Header("base64", "exact", "base-sepolia"),
      Header("base64", "exact", "solana"),
      Header("base64", "upto", "base") }

ProofHeaders == { Header("absent", "", ""), Header("base64", "exact", "base") }

\* A request: REST paths under /api/, /hybrid/ and /execute carry the route's
\* operation id (or their path), an MCP POST carries params.name or nothing
Requests ==
    { r \in [transport : {"rest", "mcp", "other"},
             name : OpNames \cup {NoName},
             x_payment : Headers,
             x_payment_proof : ProofHeaders,
             client : BOOLEAN] :
        /\ r.transport = "rest" => r.name # NoName
        /\ r.transport = "other" => r.name = NoName }

GetOperationId(r) ==
    IF r.transport \in {"rest", "mcp"} /\ r.name # NoName THEN {r.name} ELSE {}

\* str(option.token_amount)
Str(n) == <<"str", n>>

PaymentRequirement(option) ==
    [scheme |-> "exact",
     network |-> CHOOSE n \in NetworkName(option.chain_id) : TRUE,
     asset |-> option.token_address,
     max_amount_required |-> Str(option.token_amount),
     pay_to |-> Payee,
     max_timeout_seconds |-> MaxTimeoutSeconds]

KnownChain(option) == NetworkName(option.chain_id) # {}

BuildPaymentRequirements(options) ==
    LET known == SelectSeq(options, KnownChain)
    IN  [i \in 1..Len(known) |-> PaymentRequirement(known[i])]

\* request.headers.get("X-PAYMENT") or request.headers.get("X-Payment-Proof")
PaymentHeader(r) ==
    IF r.x_payment.kind \in {"absent", "empty"} THEN r.x_payment_proof
    ELSE r.x_payment

\* json.loads / safe_base64_decode and PaymentPayload(**payment_dict)
DecodePayment(header) ==
    IF header.kind \in {"json", "base64"}
    THEN {[scheme |-> header.scheme, network |-> header.network]}
    ELSE {}

\* Mutant: the first requirement is taken whatever its network
FindFirstPaymentRequirements(reqs, payment) ==
    IF Len(reqs) = 0 THEN {} ELSE {reqs[1]}

\* x402.common.find_matching_payment_requirements: the first requirement with
\* the payload's scheme and network
FindMatchingPaymentRequirements(reqs, payment) ==
    LET hits == {i \in 1..Len(reqs) :
                    reqs[i].scheme = payment.scheme /\ reqs[i].network = payment.network}
    IN  IF hits = {} THEN {}
        ELSE {reqs[CHOOSE i \in hits : \A j \in hits : i <= j]}

NoBody == "<no body>"

PlainResponse(code, body) ==
    [code |-> code, error |-> "", reason |-> "", accepts |-> << >>,
     payment_response |-> {}, body |-> body]

Create402Response(requirements, error, reason) ==
    [code |-> 402, error |-> error, reason |-> reason, accepts |-> requirements,
     payment_response |-> {}, body |-> NoBody]

\* An exception that leaves dispatch: the server answers 500
ServerError == PlainResponse(500, NoBody)

IdlePay ==
    [pc |-> "idle", paid |-> FALSE, request |-> {}, requirements |-> << >>,
     payment |-> {}, selected |-> {}, attempt |-> 0, delays |-> << >>,
     calls |-> << >>, downstream |-> {}, response |-> {}]

\* Mutant: without a facilitator a priced operation is still charged
PassesUnpaidWhenUnpriced(cfg, op, entry) ==
    \/ op = {}
    \/ entry = {}
    \/ entry = {<< >>}

\* The requests dispatch hands to call_next without asking for payment:
\* "not self.facilitator", "not operation_id or not pricing_options"
PassesUnpaid(cfg, op, entry) ==
    \/ ~cfg.facilitator
    \/ op = {}
    \/ entry = {}
    \/ entry = {<< >>}

\* dispatch up to the first call it awaits
Dispatch(cfg, r) ==
    LET op == GetOperationId(r)
        entry == IF op = {} THEN {} ELSE cfg.pricing[CHOOSE o \in op : TRUE]
        options == IF entry = {} THEN << >> ELSE CHOOSE o \in entry : TRUE
        reqs == BuildPaymentRequirements(options)
        header == PaymentHeader(r)
        payment == DecodePayment(header)
        selected == IF payment = {} THEN {}
                    ELSE FindMatchingPaymentRequirements(reqs, CHOOSE x \in payment : TRUE)
        start == [IdlePay EXCEPT !.request = {r}]
        required == [start EXCEPT !.paid = TRUE, !.requirements = reqs]
        refuse(resp) == [required EXCEPT !.pc = "done", !.response = {resp}]
    IN  IF PassesUnpaid(cfg, op, entry) THEN [start EXCEPT !.pc = "handler"]
        ELSE IF header.kind \in {"absent", "empty"}
             THEN refuse(Create402Response(reqs, "No X-PAYMENT header provided", ""))
        ELSE IF payment = {}
             THEN IF r.client
                  THEN refuse(Create402Response(reqs, "Invalid payment header format", ""))
                  ELSE refuse(ServerError)
        ELSE IF selected = {}
             THEN refuse(Create402Response(reqs, "No matching payment requirements found", ""))
        ELSE [required EXCEPT !.pc = "verify", !.payment = payment,
                              !.selected = selected, !.attempt = 1]

\* What facilitator.verify does: answers valid or invalid with a reason, fails
\* with an httpx.HTTPError, or fails otherwise
VerifyOutcomes ==
    { [kind |-> "valid", reason |-> ""],
      [kind |-> "invalid", reason |-> "Insufficient funds"],
      [kind |-> "invalid", reason |-> ""],
      [kind |-> "http_error", reason |-> ""],
      [kind |-> "other_error", reason |-> ""] }

Pow2(n) == IF n = 0 THEN 1 ELSE IF n = 1 THEN 2 ELSE IF n = 2 THEN 4
           ELSE IF n = 3 THEN 8 ELSE 16

\* A call the middleware awaited and what came back
Call(name, result) == [call |-> name, result |-> result, reason |-> "", args |-> {}]

\* A call to the facilitator with (payment, selected_req) of the request
WithArgs(call, p) ==
    [call EXCEPT !.args = {<<x, y>> : x \in p.payment, y \in p.selected}]

\* facilitator.verify and its answer (invalid_reason: "" when none is given)
VerifyCall(out) == [Call("verify", out.kind) EXCEPT !.reason = out.reason]

\* Mutant: an invalid answer is let through to the handler
AfterVerifyLenient(p, out) ==
    LET q == [p EXCEPT !.calls = Append(@, WithArgs(VerifyCall(out), p))]
    IN  IF out.kind \in {"valid", "invalid"} THEN [q EXCEPT !.pc = "handler"]
        ELSE [q EXCEPT !.pc = "done", !.response = {ServerError}]

\* Mutant: an invalid answer is retried like a transport failure
AfterVerifyRetriesInvalid(p, out) ==
    LET q == [p EXCEPT !.calls = Append(@, WithArgs(VerifyCall(out), p))]
    IN  CASE out.kind = "valid" -> [q EXCEPT !.pc = "handler"]
          [] out.kind \in {"invalid", "http_error"} ->
                IF p.attempt < FACILITATOR_VERIFY_MAX_RETRIES
                THEN [q EXCEPT !.attempt = @ + 1,
                               !.delays = Append(@, FACILITATOR_VERIFY_RETRY_DELAY_SECONDS
                                                       * Pow2(p.attempt - 1))]
                ELSE [q EXCEPT !.pc = "done",
                               !.response = {Create402Response(p.requirements,
                                   IF out.kind = "invalid" THEN "Invalid payment"
                                   ELSE "Payment verification failed; please try again later.",
                                   IF out.kind # "invalid" THEN ""
                                   ELSE IF out.reason = "" THEN "Unknown reason"
                                   ELSE out.reason)}]
          [] OTHER -> [q EXCEPT !.pc = "done", !.response = {ServerError}]

\* Mutant: the loop sleeps after the last attempt too and tries once more
AfterVerifySleepsAfterLast(p, out) ==
    LET q == [p EXCEPT !.calls = Append(@, WithArgs(VerifyCall(out), p))]
    IN  CASE out.kind = "valid" -> [q EXCEPT !.pc = "handler"]
          [] out.kind = "invalid" ->
                [q EXCEPT !.pc = "done",
                          !.response = {Create402Response(p.requirements, "Invalid payment",
                                          IF out.reason = "" THEN "Unknown reason"
                                          ELSE out.reason)}]
          [] out.kind = "http_error" ->
                IF p.attempt <= FACILITATOR_VERIFY_MAX_RETRIES
                THEN [q EXCEPT !.attempt = @ + 1,
                               !.delays = Append(@, FACILITATOR_VERIFY_RETRY_DELAY_SECONDS
                                                       * Pow2(p.attempt - 1))]
                ELSE [q EXCEPT !.pc = "done",
                               !.response = {Create402Response(p.requirements,
                                   "Payment verification failed; please try again later.", "")}]
          [] OTHER -> [q EXCEPT !.pc = "done", !.response = {ServerError}]

\* One attempt of _verify_with_retry and what dispatch does with its result
AfterVerify(p, out) ==
    LET q == [p EXCEPT !.calls = Append(@, WithArgs(VerifyCall(out), p))]
    IN  CASE out.kind = "valid" -> [q EXCEPT !.pc = "handler"]
          [] out.kind = "invalid" ->
                [q EXCEPT !.pc = "done",
                          !.response = {Create402Response(p.requirements, "Invalid payment",
                                          IF out.reason = "" THEN "Unknown reason"
                                          ELSE out.reason)}]
          [] out.kind = "http_error" ->
                IF p.attempt < FACILITATOR_VERIFY_MAX_RETRIES
                THEN [q EXCEPT !.attempt = @ + 1,
                               !.delays = Append(@, FACILITATOR_VERIFY_RETRY_DELAY_SECONDS
                                                       * Pow2(p.attempt - 1))]
                ELSE [q EXCEPT !.pc = "done",
                               !.response = {Create402Response(p.requirements,
                                   "Payment verification failed; please try again later.", "")}]
          [] OTHER -> [q EXCEPT !.pc = "done", !.response = {ServerError}]

HandlerCodes == {200, 202, 404, 500}
Bodies == {"body-a", "body-b"}

\* 200 <= response.status_code < 300
IsSuccess(code) == 200 <= code /\ code < 300

\* call_next(request) has returned the downstream response
AfterHandler(p, code, body) ==
    LET q == [p EXCEPT !.calls = Append(@, Call("handler", code)),
                       !.downstream = {PlainResponse(code, body)}]
    IN  IF p.paid /\ IsSuccess(code) THEN [q EXCEPT !.pc = "settle"]
        ELSE [q EXCEPT !.pc = "done", !.response = {PlainResponse(code, body)}]

\* What facilitator.settle does: success, success=false, or an exception
SettleOutcomes == {"success", "failure", "exception"}

\* base64(json(settle_response))
EncodeSettlement(out) == <<"base64", "json", out>>

\* Mutant: the header is attached whatever settle answered
AfterSettleAlwaysHeader(p, out) ==
    LET down == CHOOSE d \in p.downstream : TRUE
    IN  [p EXCEPT !.calls = Append(@, WithArgs(Call("settle", out), p)),
                  !.pc = "done",
                  !.response = {[down EXCEPT !.payment_response = {EncodeSettlement(out)}]}]

\* Mutant: a settlement that did not succeed turns the response into a 402
AfterSettleFailsResponse(p, out) ==
    LET down == CHOOSE d \in p.downstream : TRUE
    IN  [p EXCEPT !.calls = Append(@, WithArgs(Call("settle", out), p)),
                  !.pc = "done",
                  !.response = {IF out = "success"
                                THEN [down EXCEPT !.payment_response = {EncodeSettlement(out)}]
                                ELSE Create402Response(p.requirements, "Settlement failed", "")}]

AfterSettle(p, out) ==
    LET down == CHOOSE d \in p.downstream : TRUE
    IN  [p EXCEPT !.calls = Append(@, WithArgs(Call("settle", out), p)),
                  !.pc = "done",
                  !.response = {IF out = "success"
                                THEN [down EXCEPT !.payment_response = {EncodeSettlement(out)}]
                                ELSE down}]

----------------------------------------------------------------------------
(* Actions of the payment middleware *)

PayParked ==
    /\ payCfg = [facilitator |-> FALSE, pricing |-> Unpriced]
    /\ pay = IdlePay

InitPay ==
    /\ payCfg \in [facilitator : BOOLEAN, pricing : PricingTables]
    /\ pay = IdlePay

PayRequest ==
    \E r \in Requests :
        /\ pay.pc = "idle"
        /\ pay' = Dispatch(payCfg, r)
        /\ UNCHANGED <<payCfg, notPayVars>>

PayVerify ==
    \E out \in VerifyOutcomes :
        /\ pay.pc = "verify"
        /\ pay' = AfterVerify(pay, out)
        /\ UNCHANGED <<payCfg, notPayVars>>

PayHandler ==
    \E code \in HandlerCodes, body \in Bodies :
        /\ pay.pc = "handler"
        /\ pay' = AfterHandler(pay, code, body)
        /\ UNCHANGED <<payCfg, notPayVars>>

PaySettle ==
    \E out \in SettleOutcomes :
        /\ pay.pc = "settle"
        /\ pay' = AfterSettle(pay, out)
        /\ UNCHANGED <<payCfg, notPayVars>>

\* The response has been sent; the middleware takes the next request
PayDone ==
    /\ pay.pc = "done"
    /\ pay' = IdlePay
    /\ UNCHANGED <<payCfg, notPayVars>>


----------------------------------------------------------------------------
(* Actions of the task engine *)

NoOp == [op |-> "none", task_id |-> UnknownId, secret |-> WrongSecret, deadline |-> {},
         cleaned |-> 0,
         response |-> [code |-> 0, error_code |-> "", message |-> << >>, body |-> {}]]

\* lastOp holds what the step just taken has put out; the next step hands it
\* over (Return) before anything else runs
Idle == lastOp = NoOp

InitTask ==
    /\ tasks = << >>
    /\ workers = << >>
    /\ now = 0
    /\ nextSweep = CleanupIntervalSeconds
    /\ lastOp = NoOp
    /\ raised = << >>

\* POST /execute
Execute ==
    \E d \in DeadlineInputs, out \in RunnerOutcomes :
      LET id == TaskId(Cardinality(DOMAIN tasks) + 1)
          secret == BuyerSecret(Cardinality(DOMAIN tasks) + 1) IN
        /\ Idle
        /\ Cardinality(DOMAIN tasks) < MaxTasks
        /\ LET c == CreateTask(tasks, id, secret, d, out, now)
           IN  /\ tasks' = c.tasks
               /\ workers' = [x \in DOMAIN workers \cup {id} |->
                                IF x = id THEN c.worker ELSE workers[x]]
               /\ lastOp' = [op |-> "execute", task_id |-> id, secret |-> secret,
                             deadline |-> d, cleaned |-> 0,
                             response |-> ExecuteRoute(c.result, id)]
        /\ UNCHANGED <<now, nextSweep, raised, notTaskVars>>

\* int((time.time() - start_time) * 1000)
ElapsedMs(start, t) == (t - start) * 1000

\* The event loop starts a spawned worker.  call_soon runs it in the loop's
\* next iteration, within the clock tick of its creation, so its start_time
\* is the task's created_at.
WorkerStart ==
    \E id \in DOMAIN workers, out \in RunnerOutcomes :
        /\ Idle
        /\ workers[id] = "spawned"
        /\ LET run == WorkerFirstRun(tasks, id, out)
           IN  /\ tasks' = run.tasks
               /\ workers' = [workers EXCEPT ![id] = run.worker]
        /\ raised' = Raised(raised, id, out)
        /\ UNCHANGED <<now, nextSweep, lastOp, notTaskVars>>

\* The runner returns or raises after having suspended
WorkerFinish ==
    \E id \in DOMAIN workers, out \in RunnerOutcomes :
        /\ Idle
        /\ workers[id] = "running"
        /\ out.kind # "suspend"
        /\ tasks' = WorkerUpdate(tasks, id, out, ElapsedMs(tasks[id].created_at, now))
        /\ workers' = [workers EXCEPT ![id] = WorkerEnd(out)]
        /\ raised' = Raised(raised, id, out)
        /\ UNCHANGED <<now, nextSweep, lastOp, notTaskVars>>

\* cleanup_loop: one iteration after its sleep
Sweep ==
    /\ Idle
    /\ now >= nextSweep
    /\ tasks' = CleanupExpiredTasks(tasks, now)
    /\ nextSweep' = now + CleanupIntervalSeconds
    /\ lastOp' = [NoOp EXCEPT !.op = "sweep", !.cleaned = CleanedCount(tasks, now)]
    /\ UNCHANGED <<workers, now, raised, notTaskVars>>

\* GET /tasks/{task_id} with header X-Buyer-Secret
\* What a caller may present: the id of a task with its secret, with the
\* secret of another task or with a secret never handed out, and an id never
\* handed out
PollInputs ==
    {<<TaskId(i), BuyerSecret(i)>> : i \in 1..MaxTasks}
    \cup {<<TaskId(i), BuyerSecret((i % MaxTasks) + 1)>> : i \in 1..MaxTasks}
    \cup {<<TaskId(i), WrongSecret>> : i \in 1..MaxTasks}
    \cup {<<UnknownId, WrongSecret>>, <<UnknownId, BuyerSecret(1)>>}

Poll ==
    \E input \in PollInputs :
      LET id == input[1]
          secret == input[2] IN
        /\ Idle
        /\ lastOp' = [op |-> "poll", task_id |-> id, secret |-> secret,
                      deadline |-> {}, cleaned |-> 0,
                      response |-> TasksRoute(GetTask(tasks, id, secret), id)]
        /\ tasks' = AfterGet(tasks, id, secret)
        /\ UNCHANGED <<workers, now, nextSweep, raised, notTaskVars>>

Tick ==
    /\ Idle
    /\ now + TickSeconds <= MaxTime
    /\ \A id \in DOMAIN workers : workers[id] # "spawned"
    /\ now' = now + TickSeconds
    /\ UNCHANGED <<tasks, workers, nextSweep, lastOp, raised, notTaskVars>>

\* The handler returns its response (the janitor logs its count)
Return ==
    /\ ~Idle
    /\ lastOp' = NoOp
    /\ UNCHANGED <<tasks, workers, now, nextSweep, raised, notTaskVars>>

NextTask ==
    Execute \/ WorkerStart \/ WorkerFinish \/ Sweep \/ Poll \/ Tick \/ Return

\* The payment middleware alone
NextPay == PayRequest \/ PayVerify \/ PayHandler \/ PaySettle \/ PayDone

----------------------------------------------------------------------------
(* RateLimitMiddleware (xy_market.middleware.ratelimit) *)

(* Bounds of the rate-limit model *)
MaxLimit == 2
MaxRateTicks == 3
MaxAccepted == 4

\* window_seconds as create_app passes it
WindowSeconds == 60
Windows == {WindowSeconds \div 2, WindowSeconds}
\* the clock advances in steps of half a window
RateTickSeconds == WindowSeconds \div 2
MaxRateTime == MaxRateTicks * RateTickSeconds

\* A URL path is the sequence of its segments
ExecutePath == <<"hybrid", "execute">>
TaskPath == <<"hybrid", "tasks", "t1">>
AdminLogsPath == <<"api", "admin", "logs">>
HealthPath == <<"health">>
Paths == {ExecutePath, TaskPath, AdminLogsPath, HealthPath}

\* A key of limits: a plain string, or one that "looks like a regex"; the
\* regex create_app uses is ^/<segments>/.*
Plain(segs) == [regex |-> FALSE, segs |-> segs, tail |-> ""]
Regex(segs) == [regex |-> TRUE, segs |-> segs, tail |-> "/.*"]
\* Other regex keys: ^/<segments>$ and ^/<segments> with nothing after
RegexEnd(segs) == [regex |-> TRUE, segs |-> segs, tail |-> "$"]
RegexOpen(segs) == [regex |-> TRUE, segs |-> segs, tail |-> ""]

\* The limits dict of create_app, in insertion order
Limits(execute, polling, admin) ==
    << [pattern |-> Plain(<<"hybrid", "execute">>), limit |-> execute],
       [pattern |-> Regex(<<"hybrid", "tasks">>), limit |-> polling],
       [pattern |-> Plain(<<"api", "admin">>), limit |-> admin] >>

RateConfigs ==
    { [limits |-> Limits(a, MaxLimit + 1 - a, a), window_seconds |-> w] :
        a \in 1..MaxLimit, w \in Windows }

ClientHosts == {"10.0.0.1"}

\* A request as the rate limiter reads it: url.path, the X-Buyer-Secret header
\* and client.host (None when there is no client)
RateRequest(path, secret, host) == [path |-> path, secret |-> secret, host |-> host]

RateRequests ==
    { RateRequest(ExecutePath, {}, {h}) : h \in ClientHosts } \cup
    { RateRequest(ExecutePath, {}, {}),
      RateRequest(TaskPath, {BuyerSecret(1)}, {}),
      RateRequest(TaskPath, {}, {}),
      RateRequest(AdminLogsPath, {BuyerSecret(1)}, {}),
      RateRequest(HealthPath, {}, {}) }

HasPrefix(path, segs) ==
    /\ Len(segs) <= Len(path)
    /\ \A i \in 1..Len(segs) : path[i] = segs[i]

\* re.match(pattern, path): the pattern is matched at the start of the path
\* and need not reach its end
ReMatch(pattern, path) ==
    CASE pattern.tail = "/.*" ->
            HasPrefix(path, pattern.segs) /\ Len(path) > Len(pattern.segs)
      [] pattern.tail = "$" -> path = pattern.segs
      [] OTHER -> HasPrefix(path, pattern.segs)

\* re.match(pattern, path) for a regex key, path.startswith(pattern) otherwise
PatternMatches(pattern, path) ==
    IF pattern.regex THEN ReMatch(pattern, path)
    ELSE HasPrefix(path, pattern.segs)

\* _get_limit: an exact key first, then the first key that matches
GetLimit(limits, path) ==
    LET exact == {i \in 1..Len(limits) :
                    ~limits[i].pattern.regex /\ limits[i].pattern.segs = path}
        hits == {i \in 1..Len(limits) : PatternMatches(limits[i].pattern, path)}
    IN  IF exact # {} THEN {limits[CHOOSE i \in exact : TRUE].limit}
        ELSE IF hits # {} THEN {limits[CHOOSE i \in hits : \A j \in hits : i <= j].limit}
        ELSE {}

\* "tasks" in path
HasTasks(path) == \E i \in 1..Len(path) : path[i] = "tasks"

\* Mutant: every request is keyed by client address and path
GetKeyByAddress(r) ==
    <<"ip", IF r.host # {} THEN CHOOSE h \in r.host : TRUE ELSE "unknown", r.path>>

\* _get_key
GetKey(r) ==
    IF HasTasks(r.path) /\ r.secret # {}
    THEN <<"secret", CHOOSE s \in r.secret : TRUE>>
    ELSE <<"ip", IF r.host # {} THEN CHOOSE h \in r.host : TRUE ELSE "unknown", r.path>>

Put(f, k, v) == [x \in DOMAIN f \cup {k} |-> IF x = k THEN v ELSE f[x]]

Counter(count, window_start) == [count |-> count, window_start |-> window_start]

\* Mutant: the window is full one request later
CheckRateLimitOffByOne(ctr, key, limit, t, window) ==
    LET cur == IF key \in DOMAIN ctr THEN ctr[key] ELSE Counter(0, t)
    IN  IF t - cur.window_start > window
        THEN [allowed |-> TRUE, counters |-> Put(ctr, key, Counter(1, t))]
        ELSE IF cur.count > limit
        THEN [allowed |-> FALSE, counters |-> ctr]
        ELSE [allowed |-> TRUE,
              counters |-> Put(ctr, key, Counter(cur.count + 1, cur.window_start))]

\* Mutant: a denied request is counted too
CheckRateLimitCountsDenied(ctr, key, limit, t, window) ==
    LET cur == IF key \in DOMAIN ctr THEN ctr[key] ELSE Counter(0, t)
    IN  IF t - cur.window_start > window
        THEN [allowed |-> TRUE, counters |-> Put(ctr, key, Counter(1, t))]
        ELSE [allowed |-> cur.count < limit,
              counters |-> Put(ctr, key, Counter(cur.count + 1, cur.window_start))]

\* Mutant: a window never ends
CheckRateLimitNeverResets(ctr, key, limit, t, window) ==
    LET cur == IF key \in DOMAIN ctr THEN ctr[key] ELSE Counter(0, t)
    IN  IF cur.count >= limit
        THEN [allowed |-> FALSE, counters |-> ctr]
        ELSE [allowed |-> TRUE,
              counters |-> Put(ctr, key, Counter(cur.count + 1, cur.window_start))]

\* _check_rate_limit
CheckRateLimit(ctr, key, limit, t, window) ==
    LET cur == IF key \in DOMAIN ctr THEN ctr[key] ELSE Counter(0, t)
    IN  IF t - cur.window_start > window
        THEN [allowed |-> TRUE, counters |-> Put(ctr, key, Counter(1, t))]
        ELSE IF cur.count >= limit
        THEN [allowed |-> FALSE, counters |-> ctr]
        ELSE [allowed |-> TRUE,
              counters |-> Put(ctr, key, Counter(cur.count + 1, cur.window_start))]

\* The 429 response of dispatch
RateLimitExceeded(limit, window) ==
    [code |-> 429, error_code |-> "RATE_LIMIT_EXCEEDED",
     message |-> <<"Rate limit exceeded. Limit: ", limit, " requests per ", window, " seconds.">>]

NoRateOut == [request |-> {}, key |-> {}, passed |-> FALSE, response |-> {}]

\* Mutant: "if limit is not None", a limit of 0 is checked like any other
RateDispatchChecksZero(cfg, ctr, r, t) ==
    LET limit == GetLimit(cfg.limits, r.path)
        l == CHOOSE x \in limit : TRUE
        key == GetKey(r)
        chk == CheckRateLimit(ctr, key, l, t, cfg.window_seconds)
    IN  IF limit = {}
        THEN [counters |-> ctr, limit |-> {},
              out |-> [request |-> {r}, key |-> {}, passed |-> TRUE, response |-> {}]]
        ELSE [counters |-> chk.counters, limit |-> limit,
              out |-> [request |-> {r}, key |-> {key}, passed |-> chk.allowed,
                       response |-> IF chk.allowed THEN {}
                                    ELSE {RateLimitExceeded(l, cfg.window_seconds)}]]

\* dispatch up to call_next: the counters it leaves, whether the request goes
\* on to call_next, and the response when it does not
RateDispatch(cfg, ctr, r, t) ==
    LET limit == GetLimit(cfg.limits, r.path)
        l == CHOOSE x \in limit : TRUE
        applies == limit # {} /\ l # 0
        key == GetKey(r)
        chk == CheckRateLimit(ctr, key, l, t, cfg.window_seconds)
    IN  IF ~applies
        THEN [counters |-> ctr, limit |-> {},
              out |-> [request |-> {r}, key |-> {}, passed |-> TRUE, response |-> {}]]
        ELSE [counters |-> chk.counters, limit |-> limit,
              out |-> [request |-> {r}, key |-> {key}, passed |-> chk.allowed,
                       response |-> IF chk.allowed THEN {}
                                    ELSE {RateLimitExceeded(l, cfg.window_seconds)}]]

\* History, per key: one entry per request the limiter counted and let through
Accept(limit, t, counter) ==
    [limit |-> limit, t |-> t, window_start |-> counter.window_start]

Log(log, d, t) ==
    IF d.out.key # {} /\ d.out.passed
    THEN LET k == CHOOSE x \in d.out.key : TRUE
             before == IF k \in DOMAIN log THEN log[k] ELSE << >>
         IN  Put(log, k, Append(before, Accept(CHOOSE x \in d.limit : TRUE, t, d.counters[k])))
    ELSE log

AcceptedCount(log) ==
    Cardinality(UNION {{<<k, i>> : i \in 1..Len(log[k])} : k \in DOMAIN log})

(* Actions of the rate limiter *)

RateParked ==
    /\ rateCfg = [limits |-> << >>, window_seconds |-> WindowSeconds]
    /\ counters = << >>
    /\ clock = 0
    /\ accepted = << >>
    /\ rateOut = NoRateOut

InitRate ==
    /\ rateCfg \in RateConfigs
    /\ counters = << >>
    /\ clock = 0
    /\ accepted = << >>
    /\ rateOut = NoRateOut

\* dispatch serves request r
Serve(r) ==
    LET d == RateDispatch(rateCfg, counters, r, clock)
    IN  /\ AcceptedCount(accepted) < MaxAccepted
        /\ counters' = d.counters
        /\ accepted' = Log(accepted, d, clock)
        /\ rateOut' = d.out
        /\ UNCHANGED <<rateCfg, clock, notRateVars>>

RateServe == \E r \in RateRequests : Serve(r)

RateTick ==
    /\ clock + RateTickSeconds <= MaxRateTime
    /\ clock' = clock + RateTickSeconds
    /\ UNCHANGED <<rateCfg, counters, accepted, rateOut, notRateVars>>

NextRate == RateServe \/ RateTick

\* Limits dicts for the lookup of a path: up to MaxRules keys out of the pool,
\* in every order; the limit of a key is its position in the dict
MaxRules == 3

ItemsPath == <<"api", "items">>
ItemPath == <<"api", "items", "7">>
ItemDeletePath == <<"api", "items", "7", "delete">>
UsersPath == <<"api", "users">>

PatternPool ==
    { Plain(<<"api">>), Plain(ItemsPath), Regex(ItemsPath), RegexOpen(ItemsPath),
      RegexEnd(ItemPath) }

LimitDicts ==
    UNION { { [i \in 1..n |-> [pattern |-> keys[i], limit |-> i]] :
                keys \in {f \in [1..n -> PatternPool] :
                            \A i, j \in 1..n : f[i] = f[j] => i = j} } :
            n \in 1..MaxRules }

LookupPaths == {ItemsPath, ItemPath, ItemDeletePath, UsersPath, HealthPath}

InitLookup ==
    /\ rateCfg \in {[limits |-> l, window_seconds |-> WindowSeconds] : l \in LimitDicts}
    /\ counters = << >>
    /\ clock = 0
    /\ accepted = << >>
    /\ rateOut = NoRateOut

\* A request for each path, without secret and without client
LookupRequests == {RateRequest(path, {}, {}) : path \in LookupPaths}

LookupServe == \E r \in LookupRequests : Serve(r)

NextLookup == LookupServe

\* Limits dicts in which a rule has the limit 0
ZeroConfigs ==
    { [limits |-> Limits(a, b, a), window_seconds |-> WindowSeconds] :
        a \in 0..MaxLimit, b \in {0, 1} }
    \ { [limits |-> Limits(a, 1, a), window_seconds |-> WindowSeconds] : a \in 1..MaxLimit }

InitZero ==
    /\ rateCfg \in ZeroConfigs
    /\ counters = << >>
    /\ clock = 0
    /\ accepted = << >>
    /\ rateOut = NoRateOut

\* Task polling by two buyers, from two task paths and two client addresses,
\* and one request outside the task paths that carries a secret
TaskPath2 == <<"hybrid", "tasks", "t2">>

KeyRequests ==
    { RateRequest(TaskPath, {BuyerSecret(1)}, {h}) : h \in ClientHosts } \cup
    { RateRequest(TaskPath, {BuyerSecret(2)}, {h}) : h \in ClientHosts } \cup
    { RateRequest(TaskPath, {}, {h}) : h \in ClientHosts } \cup
    { RateRequest(ExecutePath, {BuyerSecret(1)}, {h}) : h \in ClientHosts } \cup
    { RateRequest(TaskPath2, {BuyerSecret(1)}, {}) }

KeyServe == \E r \in KeyRequests : Serve(r)

NextKeys == KeyServe \/ RateTick

----------------------------------------------------------------------------
(* Request handlers running concurrently through the rate limiter *)

MaxHandlers == 3
Handlers == 1..MaxHandlers

\* The requests of the concurrent clients: one path, two client addresses
ConcRequests ==
    { RateRequest(ExecutePath, {}, {h}) : h \in ClientHosts } \cup
    { RateRequest(ExecutePath, {}, {}) }

\* A handler: the request it serves, the counters as they were when the
\* request arrived, whether the limiter let it through, and its response
IdleHandler ==
    [pc |-> "idle", request |-> {}, arrival |-> << >>, key |-> {}, passed |-> FALSE,
     response |-> {}]

\* Mutant: the check awaits between reading the counter and writing it
CheckYieldsOn == TRUE

\* _check_rate_limit is a plain function of an asyncio middleware: no await
\* lies between its read of self.counters and its write
CheckYields == FALSE

ConcParked == inflight = << >>

InitConc ==
    /\ rateCfg \in RateConfigs
    /\ counters = << >>
    /\ clock = 0
    /\ accepted = << >>
    /\ rateOut = NoRateOut
    /\ inflight = [h \in Handlers |-> IdleHandler]

\* The event loop starts the handler of a request that has come in
Arrive ==
    \E h \in Handlers, r \in ConcRequests :
        /\ inflight[h].pc = "idle"
        /\ inflight' = [inflight EXCEPT ![h] =
                            [@ EXCEPT !.pc = "arrived", !.request = {r},
                                      !.arrival = counters]]
        /\ UNCHANGED <<rateVars, notConcVars>>

\* dispatch up to "await call_next(request)", in one step of the event loop;
\* only the counter of the request's key is written
ConcDispatch ==
    \E h \in Handlers :
        LET r == CHOOSE x \in inflight[h].request : TRUE
            read == IF CheckYields THEN inflight[h].arrival ELSE counters
            d == RateDispatch(rateCfg, read, r, clock)
            k == CHOOSE x \in d.out.key : TRUE
        IN  /\ inflight[h].pc = "arrived"
            /\ counters' = IF d.out.key # {} /\ k \in DOMAIN d.counters
                            THEN Put(counters, k, d.counters[k])
                            ELSE counters
            /\ inflight' = [inflight EXCEPT ![h] =
                                [@ EXCEPT !.pc = IF d.out.passed THEN "handler" ELSE "denied",
                                          !.key = d.out.key,
                                          !.passed = d.out.passed,
                                          !.response = d.out.response]]
            /\ UNCHANGED <<rateCfg, clock, accepted, rateOut, notConcVars>>

\* call_next returns the route's response, or the 429 is sent
ConcReturn ==
    \E h \in Handlers :
        /\ inflight[h].pc \in {"handler", "denied"}
        /\ inflight' = [inflight EXCEPT ![h] =
                            [@ EXCEPT !.pc = "done",
                                      !.response = IF inflight[h].passed
                                                   THEN {[code |-> 200]} ELSE @]]
        /\ UNCHANGED <<rateVars, notConcVars>>

NextConc == Arrive \/ ConcDispatch \/ ConcReturn

----------------------------------------------------------------------------
(* The middleware stack of create_app (seller_template.app) *)

RateLimitMiddleware == "RateLimitMiddleware"
X402WrapperMiddleware == "X402WrapperMiddleware"
RouteHandler == "route handler"

\* app.add_middleware(cls, ...): Starlette inserts at the head of
\* user_middleware, and the head of the list is the outermost middleware
AddMiddleware(stack, cls) == <<cls>> \o stack

\* The add_middleware calls of create_app, in program order
CreateAppMiddleware(pricing_mode) ==
    LET limited == AddMiddleware(<< >>, RateLimitMiddleware)
    IN  IF pricing_mode = "on" THEN AddMiddleware(limited, X402WrapperMiddleware)
        ELSE limited

PricingModes == {"on", "off"}

StackPaths == {ExecutePath, HealthPath}

\* A request to the seller node
StackRequests ==
    [path : StackPaths,
     x_payment : {Header("absent", "", ""), Header("base64", "exact", "base")},
     host : {{h} : h \in ClientHosts}]

\* operation_id of the route that serves the path
RouteOperationId(path) == IF path = ExecutePath THEN "execute_task" ELSE NoName

\* The request as each middleware reads it
PayRequestOf(r) ==
    [transport |-> IF r.path[1] \in {"api", "hybrid", "execute"} THEN "rest" ELSE "other",
     name |-> RouteOperationId(r.path),
     x_payment |-> r.x_payment,
     x_payment_proof |-> Header("absent", "", ""),
     client |-> r.host # {}]

RateRequestOf(r) == RateRequest(r.path, {}, r.host)

IdleFlight ==
    [pc |-> "idle", request |-> {}, pos |-> 0, trace |-> << >>, inner |-> {},
     response |-> {}]

\* call_next(request): the request goes on to the next middleware or the route
Enter(f, pos) == [f EXCEPT !.pc = "enter", !.pos = pos]
\* a middleware returns resp to the one that called it
Back(f, pos, resp) == [f EXCEPT !.pc = "back", !.pos = pos, !.inner = resp]
Visit(f, who) == [f EXCEPT !.trace = Append(@, who)]

\* Where the payment middleware's state sends the request next
AfterPayment(f, p) ==
    CASE p.pc = "verify" -> [f EXCEPT !.pc = "verify"]
      [] p.pc = "settle" -> [f EXCEPT !.pc = "settle"]
      [] p.pc = "handler" -> Enter(f, f.pos + 1)
      [] OTHER -> Back(f, f.pos - 1, p.response)

(* Actions of the stack *)

StackParked ==
    /\ middleware = << >>
    /\ flight = IdleFlight

InitStack ==
    /\ middleware \in {CreateAppMiddleware(mode) : mode \in PricingModes}
    /\ flight = IdleFlight
    /\ InitPay
    /\ InitRate

AtMiddleware(cls) ==
    /\ flight.pc = "enter"
    /\ flight.pos <= Len(middleware)
    /\ middleware[flight.pos] = cls

StackRequest ==
    \E r \in StackRequests :
        /\ flight.pc = "idle"
        /\ flight' = Enter([IdleFlight EXCEPT !.request = {r}], 1)
        /\ UNCHANGED <<middleware, payVars, rateVars, taskVars, notStackVars>>

\* X402WrapperMiddleware.dispatch up to its first await
StackPayment ==
    LET r == CHOOSE x \in flight.request : TRUE
        p == Dispatch(payCfg, PayRequestOf(r))
    IN  /\ AtMiddleware(X402WrapperMiddleware)
        /\ pay' = p
        /\ flight' = AfterPayment(Visit(flight, X402WrapperMiddleware), p)
        /\ UNCHANGED <<middleware, payCfg, rateVars, taskVars, notStackVars>>

StackVerify ==
    \E out \in VerifyOutcomes :
        LET p == AfterVerify(pay, out)
        IN  /\ flight.pc = "verify"
            /\ pay' = p
            /\ flight' = AfterPayment(flight, p)
            /\ UNCHANGED <<middleware, payCfg, rateVars, taskVars, notStackVars>>

\* RateLimitMiddleware.dispatch
StackRateLimit ==
    LET r == CHOOSE x \in flight.request : TRUE
        d == RateDispatch(rateCfg, counters, RateRequestOf(r), clock)
        f == Visit(flight, RateLimitMiddleware)
    IN  /\ AtMiddleware(RateLimitMiddleware)
        /\ counters' = d.counters
        /\ accepted' = Log(accepted, d, clock)
        /\ rateOut' = d.out
        /\ flight' = IF d.out.passed THEN Enter(f, f.pos + 1)
                     ELSE LET deny == CHOOSE x \in d.out.response : TRUE
                          IN  Back(f, f.pos - 1, {PlainResponse(deny.code, deny)})
        /\ UNCHANGED <<middleware, rateCfg, clock, payVars, taskVars, notStackVars>>

\* The route handler answers
StackHandler ==
    \E code \in HandlerCodes, body \in Bodies :
        /\ flight.pc = "enter"
        /\ flight.pos = Len(middleware) + 1
        /\ flight' = Back(Visit(flight, RouteHandler), flight.pos - 1,
                          {PlainResponse(code, body)})
        /\ UNCHANGED <<middleware, payVars, rateVars, taskVars, notStackVars>>

\* call_next returns in the middleware at flight.pos
StackBack ==
    LET resp == CHOOSE x \in flight.inner : TRUE
        p == AfterHandler(pay, resp.code, resp.body)
    IN  /\ flight.pc = "back"
        /\ IF flight.pos = 0
           THEN /\ flight' = [flight EXCEPT !.pc = "done", !.response = flight.inner]
                /\ pay' = pay
           ELSE IF middleware[flight.pos] = X402WrapperMiddleware
           THEN /\ pay' = p
                /\ flight' = AfterPayment(flight, p)
           ELSE /\ flight' = Back(flight, flight.pos - 1, flight.inner)
                /\ pay' = pay
        /\ UNCHANGED <<middleware, payCfg, rateVars, taskVars, notStackVars>>

StackSettle ==
    \E out \in SettleOutcomes :
        LET p == AfterSettle(pay, out)
        IN  /\ flight.pc = "settle"
            /\ pay' = p
            /\ flight' = AfterPayment(flight, p)
            /\ UNCHANGED <<middleware, payCfg, rateVars, taskVars, notStackVars>>

\* The response has been sent
StackDone ==
    /\ flight.pc = "done"
    /\ flight' = IdleFlight
    /\ pay' = IdlePay
    /\ UNCHANGED <<middleware, payCfg, rateVars, taskVars, notStackVars>>

NextStack ==
    \/ StackRequest \/ StackPayment \/ StackVerify \/ StackRateLimit
    \/ StackHandler \/ StackBack \/ StackSettle \/ StackDone

----------------------------------------------------------------------------
(* The marketplace registry: JsonAgentRepository, AgentService and the     *)
(* POST /register route (marketplace)                                       *)

MaxAgents == 2
MaxFaults == 1

\* agent_id: given by the caller, or the n-th uuid4 AgentService generates
AgentId(i) == <<"agent", i>>
GivenIds == {AgentId(i) : i \in 1..MaxAgents}
GeneratedId(n) == <<"uuid4", n>>

AgentNames == {"", "news"}
BaseUrls == {"https://a.example", "https://b.example"}

\* AgentProfile: the fields the repository reads, and version
AgentProfile(agent_id, agent_name, base_url) ==
    [agent_id |-> agent_id, agent_name |-> agent_name, base_url |-> base_url,
     version |-> 1]

Profiles ==
    {AgentProfile(id, name, url) : id \in GivenIds, name \in AgentNames, url \in BaseUrls}

\* _agents, a dict in insertion order: a sequence of (key, profile)
Keys(registry) == {registry[i].key : i \in 1..Len(registry)}

Values(registry) == [i \in 1..Len(registry) |-> registry[i].profile]

\* self._agents[key] = profile: an existing key keeps its place
SetItem(registry, key, profile) ==
    IF key \in Keys(registry)
    THEN [i \in 1..Len(registry) |->
            IF registry[i].key = key THEN [key |-> key, profile |-> profile] ELSE registry[i]]
    ELSE Append(registry, [key |-> key, profile |-> profile])

\* The file: missing, not JSON, or a JSON array; an entry of the array is
\* the dump of a profile or something model_validate rejects
MissingFile == [kind |-> "missing", entries |-> << >>]
MalformedFile == [kind |-> "malformed", entries |-> << >>]
JsonFile(entries) == [kind |-> "json", entries |-> entries]

\* agent.model_dump(mode="json") and AgentProfile.model_validate
ModelDump(profile) == [json |-> profile]
ModelValidate(entry) == entry.json
\* validate_uuid: an entry whose agent_id is no UUID does not validate
Junk == ModelDump(AgentProfile(<<"not-a-uuid", 0>>, "", "https://a.example"))
IsValid(entry) == entry.json.agent_id[1] \in {"agent", "uuid4"}

\* _load_agents: no file or no JSON gives an empty dict, an entry that does
\* not validate is skipped, a later entry replaces an earlier one of its id
RECURSIVE LoadEntries(_, _)
LoadEntries(entries, loaded) ==
    IF entries = << >> THEN loaded
    ELSE LET entry == Head(entries)
             next == IF IsValid(entry)
                     THEN SetItem(loaded, ModelValidate(entry).agent_id, ModelValidate(entry))
                     ELSE loaded
         IN  LoadEntries(Tail(entries), next)

LoadAgents(file) ==
    IF file.kind = "json" THEN LoadEntries(file.entries, << >>) ELSE << >>

\* _save_agents: the whole dict goes to a temp file that replaces the file;
\* when the write raises the file stays as it was
SaveOutcomes == {"ok", "OSError"}

SaveAgents(registry, file, outcome) ==
    IF outcome = "ok"
    THEN JsonFile([i \in 1..Len(registry) |-> ModelDump(registry[i].profile)])
    ELSE file

\* Mutant: the base_url of an existing agent is not looked at
RECURSIVE CollisionByNameOnly(_, _)
CollisionByNameOnly(existing, profile) ==
    IF existing = << >> THEN ""
    ELSE LET e == Head(existing)
         IN  IF /\ profile.agent_name # ""
                /\ e.agent_name = profile.agent_name
                /\ e.agent_id # profile.agent_id
             THEN "Agent name is already taken"
             ELSE CollisionByNameOnly(Tail(existing), profile)

\* The duplicate checks of create_agent: the message of the exception the
\* first existing agent that collides raises, "" when none does
RECURSIVE Collision(_, _)
Collision(existing, profile) ==
    IF existing = << >> THEN ""
    ELSE LET e == Head(existing)
         IN  IF e.base_url = profile.base_url
             THEN IF e.agent_id = profile.agent_id
                  THEN "is already registered with this URL"
                  ELSE "Base URL is already registered"
             ELSE IF /\ profile.agent_name # ""
                     /\ e.agent_name = profile.agent_name
                     /\ e.agent_id # profile.agent_id
             THEN "Agent name is already taken"
             ELSE Collision(Tail(existing), profile)

\* What a repository call leaves: the dict, the file, what it raised
Left(registry, file, exc) == [agents |-> registry, file |-> file, raised |-> exc]

\* Mutant: create_agent stores the profile without looking for a duplicate
CreateAgentOverwrites(registry, file, profile, save) ==
    LET stored == SetItem(registry, profile.agent_id, profile)
    IN  Left(stored, SaveAgents(stored, file, save), IF save = "ok" THEN "" ELSE save)

\* create_agent
CreateAgent(registry, file, profile, save) ==
    IF Collision(Values(registry), profile) # ""
    THEN Left(registry, file, "AgentAlreadyRegisteredError")
    ELSE IF profile.agent_id \in Keys(registry)
    THEN Left(registry, file, "AgentAlreadyRegisteredError")
    ELSE LET stored == SetItem(registry, profile.agent_id, profile)
         IN  Left(stored, SaveAgents(stored, file, save),
                  IF save = "ok" THEN "" ELSE save)

\* update_agent
UpdateAgent(registry, file, agent_id, profile, save) ==
    IF agent_id \notin Keys(registry)
    THEN Left(registry, file, "ValueError")
    ELSE LET stored == SetItem(registry, agent_id, profile)
         IN  Left(stored, SaveAgents(stored, file, save),
                  IF save = "ok" THEN "" ELSE save)

\* AgentRegistrationRequest
RegistrationRequests ==
    [agent_id : {{}, {AgentId(1)}}, agent_name : AgentNames, base_url : BaseUrls]

\* uuid.uuid4(): an id no agent has
FreshId(registry) ==
    GeneratedId(1 + Cardinality({k \in Keys(registry) : k[1] = "uuid4"}))

\* AgentService.register_agent up to create_agent: the profile it builds
NewProfile(registry, request) ==
    AgentProfile(IF request.agent_id = {} THEN FreshId(registry)
                 ELSE CHOOSE id \in request.agent_id : TRUE,
                 request.agent_name, request.base_url)

\* register_agent of the router: the status of the response
StatusOf(exc) ==
    CASE exc = "" -> 200
      [] exc = "AgentAlreadyRegisteredError" -> 409
      [] exc = "ValueError" -> 400
      [] OTHER -> 500

\* The limits dict of the marketplace's create_app
RegisterPath == <<"register">>
RegisterLimit == 10
MarketLimits == <<[pattern |-> Plain(RegisterPath), limit |-> RegisterLimit]>>

\* the marketplace's clock advances by a second more than a window
MaxMarketTicks == 1
MarketTickSeconds == WindowSeconds + 1

NoMarketOut == [op |-> "none", request |-> {}, raised |-> "", code |-> 0]

(* Actions of the registry *)

MarketParked ==
    /\ agents = << >>
    /\ disk = MissingFile
    /\ faults = 0
    /\ answered200 = {}
    /\ marketOut = NoMarketOut

\* The files a repository may find when it is constructed
FoundFiles ==
    { MissingFile, MalformedFile, JsonFile(<< >>),
      JsonFile(<<Junk, ModelDump(AgentProfile(AgentId(1), "news", "https://a.example"))>>) }

\* JsonAgentRepository.__init__
InitRegistry ==
    /\ disk \in FoundFiles
    /\ agents = LoadAgents(disk)
    /\ faults = 0
    /\ answered200 = {}
    /\ marketOut = NoMarketOut

\* A write of the file may fail, MaxFaults times in all
Saves(n) == IF n < MaxFaults THEN SaveOutcomes ELSE {"ok"}

RepoCreate ==
    \E profile \in Profiles, save \in Saves(faults) :
        LET left == CreateAgent(agents, disk, profile, save)
        IN  /\ agents' = left.agents
            /\ disk' = left.file
            /\ faults' = IF left.raised = "OSError" THEN faults + 1 ELSE faults
            /\ marketOut' = [op |-> "create_agent", request |-> {}, raised |-> left.raised,
                             code |-> 0]
            /\ UNCHANGED <<answered200, notMarketVars>>

RepoUpdate ==
    \E agent_id \in GivenIds, profile \in Profiles, save \in Saves(faults) :
        LET left == UpdateAgent(agents, disk, agent_id, profile, save)
        IN  /\ agents' = left.agents
            /\ disk' = left.file
            /\ faults' = IF left.raised = "OSError" THEN faults + 1 ELSE faults
            /\ marketOut' = [op |-> "update_agent", request |-> {}, raised |-> left.raised,
                             code |-> 0]
            /\ UNCHANGED <<answered200, notMarketVars>>

\* The process restarts: a new repository loads the file
RepoRestart ==
    /\ agents' = LoadAgents(disk)
    /\ marketOut' = [op |-> "restart", request |-> {}, raised |-> "", code |-> 0]
    /\ UNCHANGED <<disk, faults, answered200, notMarketVars>>

NextRegistry == RepoCreate \/ RepoUpdate \/ RepoRestart

(* Actions of the marketplace application *)

InitMarket ==
    /\ InitRegistry
    /\ rateCfg = [limits |-> MarketLimits, window_seconds |-> WindowSeconds]
    /\ counters = << >>
    /\ clock = 0
    /\ accepted = << >>
    /\ rateOut = NoRateOut

\* POST /register: the rate limiter, then register_agent
MarketPost ==
    \E request \in RegistrationRequests, save \in Saves(faults) :
        LET d == RateDispatch(rateCfg, counters, RateRequest(RegisterPath, {}, {}), clock)
            left == CreateAgent(agents, disk, NewProfile(agents, request), save)
            code == IF d.out.passed THEN StatusOf(left.raised) ELSE 429
        IN  /\ counters' = d.counters
            /\ rateOut' = d.out
            /\ agents' = IF d.out.passed THEN left.agents ELSE agents
            /\ disk' = IF d.out.passed THEN left.file ELSE disk
            /\ faults' = IF d.out.passed /\ left.raised = "OSError" THEN faults + 1
                         ELSE faults
            /\ answered200' = IF code = 200 THEN answered200 \cup {request}
                              ELSE answered200
            /\ marketOut' = [op |-> "POST /register", request |-> {request},
                             raised |-> IF d.out.passed THEN left.raised ELSE "",
                             code |-> code]
            /\ UNCHANGED <<rateCfg, clock, accepted, notMarketAppVars>>

\* The marketplace restarts: a new repository and a new rate limiter
MarketRestart ==
    /\ agents' = LoadAgents(disk)
    /\ counters' = << >>
    /\ rateOut' = NoRateOut
    /\ marketOut' = [op |-> "restart", request |-> {}, raised |-> "", code |-> 0]
    /\ UNCHANGED <<disk, faults, answered200, rateCfg, clock, accepted,
                   notMarketAppVars>>

MarketTick ==
    /\ clock + MarketTickSeconds <= MaxMarketTicks * MarketTickSeconds
    /\ clock' = clock + MarketTickSeconds
    /\ UNCHANGED <<marketVars, rateCfg, counters, accepted, rateOut,
                   notMarketAppVars>>

NextMarket == MarketPost \/ MarketRestart \/ MarketTick

----------------------------------------------------------------------------
(* TaskRepository called directly, as its unit tests call it *)

\* A result dict without the key tools_used
PlainResult == [keys |-> {"result", "output"}, result |-> "success", tools_used |-> {}]

UpdateCall(status, result, error, ms, tools) ==
    [status |-> status, result |-> result, error |-> error, ms |-> ms, tools |-> tools]

\* Arguments of update_task; an argument not passed is None
UpdateCalls ==
    { UpdateCall("done", {RunnerResult("ok", {"search"})}, {}, {0}, {"search"}),
      UpdateCall("done", {PlainResult}, {}, {}, {}),
      UpdateCall("failed", {}, {[message |-> "boom", type |-> "ValueError"]}, {0}, {}),
      UpdateCall("in_progress", {}, {}, {}, {}) }

Update(tbl, id, a) == UpdateTask(tbl, id, a.status, a.result, a.error, a.ms, a.tools)

NoCall == [op |-> "none", task_id |-> <<"t", 0>>, args |-> {}, was |-> {}]

RepoParked == repoCall = NoCall

TblCreate ==
    \E d \in DeadlineInputs :
      LET id == TaskId(Cardinality(DOMAIN tasks) + 1)
          secret == BuyerSecret(Cardinality(DOMAIN tasks) + 1) IN
        /\ Cardinality(DOMAIN tasks) < MaxTasks
        /\ tasks' = RepoCreateTask(tasks, id, secret, d, now)
        /\ repoCall' = [NoCall EXCEPT !.op = "create_task", !.task_id = id]
        /\ UNCHANGED <<workers, now, nextSweep, lastOp, raised, notRepoVars>>

TblUpdate ==
    \E id \in TaskIds \cup {UnknownId}, a \in UpdateCalls :
        /\ tasks' = Update(tasks, id, a)
        /\ repoCall' = [op |-> "update_task", task_id |-> id, args |-> {a},
                        was |-> IF id \in DOMAIN tasks THEN {tasks[id].status} ELSE {}]
        /\ UNCHANGED <<workers, now, nextSweep, lastOp, raised, notRepoVars>>

TblGet ==
    \E id \in TaskIds \cup {UnknownId}, secret \in Secrets :
        /\ tasks' = AfterGet(tasks, id, secret)
        /\ repoCall' = [NoCall EXCEPT !.op = "get_task", !.task_id = id]
        /\ UNCHANGED <<workers, now, nextSweep, lastOp, raised, notRepoVars>>

TblCleanup ==
    /\ tasks' = CleanupExpiredTasks(tasks, now)
    /\ repoCall' = [NoCall EXCEPT !.op = "cleanup_expired_tasks"]
    /\ UNCHANGED <<workers, now, nextSweep, lastOp, raised, notRepoVars>>

TblTick ==
    /\ now + TickSeconds <= MaxTime
    /\ now' = now + TickSeconds
    /\ UNCHANGED <<tasks, workers, nextSweep, lastOp, raised, repoVars, notRepoVars>>

NextRepo == TblCreate \/ TblUpdate \/ TblGet \/ TblCleanup \/ TblTick

----------------------------------------------------------------------------
(* create_agent called concurrently (marketplace.repository) *)

MaxCalls == 3

NoCreates == [calls |-> << >>, lock |-> 0]

CreateParked == creates = NoCreates

\* A coroutine calls create_agent and waits for _lock
CreateCall ==
    \E profile \in Profiles :
        /\ Len(creates.calls) < MaxCalls
        /\ creates' = [creates EXCEPT !.calls =
                          Append(@, [profile |-> profile, pc |-> "waiting", exc |-> ""])]
        /\ UNCHANGED <<marketVars, notCreateVars>>

\* "async with self._lock" is entered: the checks and the insertion run up
\* to "await self._save_agents()", or to the raise, which releases the lock
CreateEnter ==
    \E i \in 1..Len(creates.calls) :
        LET left == CreateAgent(agents, disk, creates.calls[i].profile, "ok")
        IN  /\ creates.lock = 0
            /\ creates.calls[i].pc = "waiting"
            /\ agents' = left.agents
            /\ creates' =
                 IF left.raised = ""
                 THEN [creates EXCEPT !.calls[i].pc = "saving", !.lock = i]
                 ELSE [creates EXCEPT !.calls[i].pc = "raised",
                                      !.calls[i].exc = left.raised]
            /\ UNCHANGED <<disk, faults, answered200, marketOut, notCreateVars>>

\* The thread has written the file: create_agent returns and releases _lock
CreateSaved ==
    \E i \in 1..Len(creates.calls) :
        /\ creates.lock = i
        /\ disk' = SaveAgents(agents, disk, "ok")
        /\ creates' = [creates EXCEPT !.calls[i].pc = "returned", !.lock = 0]
        /\ UNCHANGED <<agents, faults, answered200, marketOut, notCreateVars>>

NextCreate == CreateCall \/ CreateEnter \/ CreateSaved

----------------------------------------------------------------------------
(* BuyerSDK.poll_task_status (xy_market.buyer_sdk.agent) *)

MaxPolls == 3

\* max_polls: None, 0 or a number of polls
MaxPollsInputs == {{}} \cup {{n} : n \in 0..MaxPolls}

\* The status of the ExecutionResult a poll returns
Statuses == {"in_progress", "done", "failed"}

NewPoller(task_id, max_polls) ==
    [task_id |-> task_id, max_polls |-> max_polls, pc |-> "poll", polls |-> 0,
     seen |-> << >>, returned |-> {}, message |-> {}]

\* "if max_polls and polls >= max_polls"
MaxPollsReached(max_polls, polls) ==
    \E n \in max_polls : n # 0 /\ polls >= n

\* One iteration of the loop from the answer of seller_client.poll_task_status
AfterPoll(p, status) ==
    LET q == [p EXCEPT !.seen = Append(@, status)]
    IN  IF status \in {"done", "failed"}
        THEN [q EXCEPT !.pc = "returned", !.returned = {status}]
        ELSE IF MaxPollsReached(p.max_polls, p.polls + 1)
        THEN [q EXCEPT !.polls = @ + 1, !.pc = "returned", !.returned = {status}]
        ELSE [q EXCEPT !.polls = @ + 1, !.pc = "sleep"]

\* BuyerAgentTools.poll_task_status: the message of the JSON string it returns
ToolMessage(p) ==
    IF p.pc = "raised" THEN "Polling failed"
    ELSE IF p.returned = {"done"} THEN "Task completed"
    ELSE "Task failed"

Asleep ==
    [task_id |-> UnknownId, max_polls |-> {}, pc |-> "idle", polls |-> 0,
     seen |-> << >>, returned |-> {}, message |-> {}]

PollerParked == poller = Asleep

\* poll_task_status is called
SdkCall ==
    \E task_id \in TaskIds, max_polls \in MaxPollsInputs :
        /\ poller.pc = "idle"
        /\ poller' = NewPoller(task_id, max_polls)
        /\ UNCHANGED notPollVars

\* The seller answers a poll; a loop without a bound is followed for
\* MaxPolls + 1 polls
SdkPoll ==
    \E status \in Statuses :
        /\ poller.pc = "poll"
        /\ Len(poller.seen) <= MaxPolls
        /\ poller' = AfterPoll(poller, status)
        /\ UNCHANGED notPollVars

\* asyncio.sleep(poll_interval) is over
SdkSleep ==
    /\ poller.pc = "sleep"
    /\ poller' = [poller EXCEPT !.pc = "poll"]
    /\ UNCHANGED notPollVars

\* seller_client.poll_task_status raises and the exception leaves the loop
SdkPollRaises ==
    /\ poller.pc = "poll"
    /\ Len(poller.seen) <= MaxPolls
    /\ poller' = [poller EXCEPT !.pc = "raised"]
    /\ UNCHANGED notPollVars

\* BuyerAgentTools.poll_task_status builds its answer
SdkReport ==
    /\ poller.pc \in {"returned", "raised"}
    /\ poller.message = {}
    /\ poller' = [poller EXCEPT !.message = {ToolMessage(poller)}]
    /\ UNCHANGED notPollVars

NextSdk == SdkCall \/ SdkPoll \/ SdkPollRaises \/ SdkSleep \/ SdkReport

----------------------------------------------------------------------------
(* RegistrationService (seller_template.registration) *)

MaxAttempts == 3

\* MarketplaceRegistrationSettings: enabled and retry_attempts
RegistrationSettings == [enabled : BOOLEAN, retry_attempts : 1..MaxAttempts]

\* What client.post gives: a response (its status, and whether its body is
\* JSON) or an httpx.RequestError
Reply(status, json) == [kind |-> "response", status |-> status, json |-> json]
RequestError == [kind |-> "RequestError", status |-> 0, json |-> FALSE]
Replies ==
    { Reply(200, TRUE), Reply(200, FALSE), Reply(409, TRUE), Reply(400, TRUE),
      Reply(500, TRUE), RequestError }

\* RegistrationService.__init__, register not yet called
NewRegistration(settings) ==
    [settings |-> settings, registered |-> FALSE, pc |-> "idle", attempt |-> 0,
     posts |-> << >>, sleeps |-> 0, returned |-> {}, raised |-> {}]

\* register up to its first await
Register(r) ==
    IF ~r.settings.enabled THEN [r EXCEPT !.pc = "returned", !.returned = {TRUE}]
    ELSE [r EXCEPT !.pc = "post", !.attempt = 1]

\* The end of an attempt that did not return: sleep, or give up after the last
AfterFailure(r) ==
    IF r.attempt < r.settings.retry_attempts THEN [r EXCEPT !.pc = "sleep"]
    ELSE [r EXCEPT !.pc = "returned", !.returned = {FALSE}]

\* One iteration of the loop of register from the answer of client.post on
AfterPost(r, reply) ==
    LET q == [r EXCEPT !.posts = Append(@, reply)]
    IN  CASE reply.kind = "RequestError" -> AfterFailure(q)
          [] reply.status = 200 ->
                IF reply.json
                THEN [q EXCEPT !.registered = TRUE, !.pc = "returned", !.returned = {TRUE}]
                ELSE [q EXCEPT !.pc = "raised", !.raised = {"JSONDecodeError"}]
          [] reply.status = 409 ->
                [q EXCEPT !.registered = TRUE, !.pc = "returned", !.returned = {TRUE}]
          [] OTHER -> AfterFailure(q)

\* asyncio.sleep(retry_delay_seconds) is over: the next attempt
AfterSleep(r) == [r EXCEPT !.pc = "post", !.attempt = @ + 1, !.sleeps = @ + 1]

(* Actions of the registration service *)

RegParked == reg = NewRegistration([enabled |-> FALSE, retry_attempts |-> 1])

InitReg == reg \in {NewRegistration(settings) : settings \in RegistrationSettings}

RegCall ==
    /\ reg.pc = "idle"
    /\ reg' = Register(reg)
    /\ UNCHANGED notRegVars

RegPost ==
    \E reply \in Replies :
        /\ reg.pc = "post"
        /\ reg' = AfterPost(reg, reply)
        /\ UNCHANGED notRegVars

RegSleep ==
    /\ reg.pc = "sleep"
    /\ reg' = AfterSleep(reg)
    /\ UNCHANGED notRegVars

NextReg == RegCall \/ RegPost \/ RegSleep

----------------------------------------------------------------------------
(* The lifespan of the seller application: shutdown (seller_template.app) *)

\* The application serves; cleanup_loop sleeps between its sweeps
Serving ==
    [pc |-> "serving", janitor |-> "running", logged |-> 0, began |-> {}, ended |-> {}]

\* What cleanup_expired_tasks may raise inside the loop
SweepErrors == {"RuntimeError"}

\* Mutant: the loop has no handler, an error of a sweep ends it
JanitorCatchesNothing(exc) == FALSE

\* "except Exception" of cleanup_loop
JanitorCatches(exc) == IsException(exc)

\* An exception reaches the try statement of cleanup_loop: it is logged and
\* the loop goes round, or it ends the loop
AfterLoopError(l, exc) ==
    IF JanitorCatches(exc) THEN [l EXCEPT !.janitor = "running", !.logged = @ + 1]
    ELSE [l EXCEPT !.janitor = "cancelled"]

LifeParked == lifespan = Serving

\* The code after yield: cleanup_task.cancel()
ShutdownBegin ==
    /\ lifespan.pc = "serving"
    /\ Idle
    /\ lifespan' = [lifespan EXCEPT !.pc = "stopping", !.janitor = "cancelling",
                                    !.began = {now}]
    /\ UNCHANGED <<taskVars, notLifeVars>>

\* cleanup_loop gets CancelledError at its sleep; except Exception lets it out
JanitorExit ==
    /\ lifespan.janitor = "cancelling"
    /\ lifespan' = AfterLoopError(lifespan, "CancelledError")
    /\ UNCHANGED <<taskVars, notLifeVars>>

\* "await cleanup_task" raises CancelledError, the lifespan returns
ShutdownEnd ==
    /\ lifespan.pc = "stopping"
    /\ lifespan.janitor = "cancelled"
    /\ lifespan' = [lifespan EXCEPT !.pc = "stopped", !.ended = {now}]
    /\ UNCHANGED <<taskVars, notLifeVars>>

\* One iteration of cleanup_loop in which cleanup_expired_tasks raises
SweepFails ==
    \E exc \in SweepErrors :
        /\ Idle
        /\ lifespan.janitor = "running"
        /\ now >= nextSweep
        /\ nextSweep' = now + CleanupIntervalSeconds
        /\ lifespan' = AfterLoopError(lifespan, exc)
        /\ UNCHANGED <<tasks, workers, now, lastOp, raised, notLifeVars>>

\* The clock advances by one interval of the janitor
MaxLoopTicks == 2

LoopTick ==
    /\ Idle
    /\ now + CleanupIntervalSeconds <= MaxLoopTicks * CleanupIntervalSeconds
    /\ \A id \in DOMAIN workers : workers[id] # "spawned"
    /\ now' = now + CleanupIntervalSeconds
    /\ UNCHANGED <<tasks, workers, nextSweep, lastOp, raised, notTaskVars>>

\* The janitor with sweeps that fail, up to the shutdown; a runner that
\* suspends stays suspended
NextLoop ==
    \/ lifespan.pc = "serving" /\ (Execute \/ Return)
    \/ lifespan.janitor = "running" /\ Sweep
    \/ SweepFails
    \/ lifespan.pc # "stopped" /\ (WorkerStart \/ LoopTick)
    \/ ShutdownBegin
    \/ JanitorExit
    \/ ShutdownEnd

\* The event loop runs handlers, workers and the janitor while the lifespan
\* is not over; requests come in and the janitor sweeps while it serves
NextLife ==
    \/ lifespan.pc = "serving" /\ (Execute \/ Sweep \/ Return)
    \/ lifespan.pc # "stopped" /\ (WorkerStart \/ WorkerFinish \/ Tick)
    \/ ShutdownBegin
    \/ JanitorExit
    \/ ShutdownEnd

----------------------------------------------------------------------------
(* Specifications: each component alone, the others at rest *)

TaskOnly == InitTask /\ PayParked /\ RateParked /\ StackParked /\ ConcParked /\ MarketParked /\ RegParked /\ LifeParked /\ RepoParked /\ CreateParked /\ PollerParked

SpecTask == TaskOnly /\ [][NextTask]_vars

\* The task engine without pollers (a poll changes nothing the engine holds),
\* under the scheduling of the event loop: a spawned worker is started, the
\* janitor's sleep ends when its time has come, time passes, a handler
\* returns.  Nothing makes a runner return.
NextJanitor == Execute \/ WorkerStart \/ WorkerFinish \/ Sweep \/ Tick \/ Return

JanitorFairness ==
    /\ WF_vars(WorkerStart)
    /\ WF_vars(Sweep)
    /\ WF_vars(Tick)
    /\ WF_vars(Return)

SpecJanitor == TaskOnly /\ [][NextJanitor]_vars /\ JanitorFairness

PayOnly == InitPay /\ InitTask /\ RateParked /\ StackParked /\ ConcParked /\ MarketParked /\ RegParked /\ LifeParked /\ RepoParked /\ CreateParked /\ PollerParked

SpecPay == PayOnly /\ [][NextPay]_vars

RateOnly == InitRate /\ InitTask /\ PayParked /\ StackParked /\ ConcParked /\ MarketParked /\ RegParked /\ LifeParked /\ RepoParked /\ CreateParked /\ PollerParked

SpecRate == RateOnly /\ [][NextRate]_vars

SpecKeys == RateOnly /\ [][NextKeys]_vars

LookupOnly == InitLookup /\ InitTask /\ PayParked /\ StackParked /\ ConcParked /\ MarketParked /\ RegParked /\ LifeParked /\ RepoParked /\ CreateParked /\ PollerParked

SpecLookup == LookupOnly /\ [][NextLookup]_vars

StackOnly == InitStack /\ InitTask /\ ConcParked /\ MarketParked /\ RegParked /\ LifeParked /\ RepoParked /\ CreateParked /\ PollerParked

SpecStack == StackOnly /\ [][NextStack]_vars

ConcOnly == InitConc /\ InitTask /\ PayParked /\ StackParked /\ MarketParked /\ RegParked /\ LifeParked /\ RepoParked /\ CreateParked /\ PollerParked

RegistryOnly == InitRegistry /\ InitTask /\ PayParked /\ RateParked /\ StackParked /\ ConcParked /\ RegParked /\ LifeParked /\ RepoParked /\ CreateParked /\ PollerParked

SpecRegistry == RegistryOnly /\ [][NextRegistry]_vars

MarketOnly == InitMarket /\ InitTask /\ PayParked /\ StackParked /\ ConcParked /\ RegParked /\ LifeParked /\ RepoParked /\ CreateParked /\ PollerParked

SpecMarket == MarketOnly /\ [][NextMarket]_vars

RegOnly == InitReg /\ InitTask /\ PayParked /\ RateParked /\ StackParked /\ ConcParked /\ MarketParked /\ LifeParked /\ RepoParked /\ CreateParked /\ PollerParked

SpecReg == RegOnly /\ [][NextReg]_vars

SpecLife == TaskOnly /\ [][NextLife]_vars

SpecLoop == TaskOnly /\ [][NextLoop]_vars

SpecRepo == TaskOnly /\ [][NextRepo]_vars

SpecSdk == TaskOnly /\ [][NextSdk]_vars

ZeroOnly == InitZero /\ InitTask /\ PayParked /\ StackParked /\ ConcParked /\ MarketParked /\ RegParked /\ LifeParked /\ RepoParked /\ CreateParked /\ PollerParked

SpecZero == ZeroOnly /\ [][NextRate]_vars

SpecCreate == TaskOnly /\ [][NextCreate]_vars

SpecConc == ConcOnly /\ [][NextConc]_vars

----------------------------------------------------------------------------
(* Properties of the task engine *)

Terminal(status) == status \in {"done", "failed"}

Swept == nextSweep > CleanupIntervalSeconds

\* C1: once a task's status is done or failed, no step (worker completion,
\* janitor sweep, create or poll) makes it in_progress again.
TerminalNeverInProgress ==
    [][\A id \in DOMAIN tasks :
          Terminal(tasks[id].status) => tasks'[id].status # "in_progress"]_vars

\* C1 witness: a task the janitor failed at its deadline and whose worker then
\* raised: both have acted and it is still failed.
TerminalAfterSweepAndWorker ==
    \E id \in DOMAIN tasks :
        /\ Swept
        /\ now >= tasks[id].expires_at
        /\ workers[id] = "finished"
        /\ tasks[id].execution_time_ms # {}
        /\ \A ms \in tasks[id].execution_time_ms :
              ms >= ElapsedMs(tasks[id].created_at, tasks[id].expires_at)
        /\ tasks[id].status = "failed"

\* C2: a poll shows the stored status of the moment, so the statuses pollers
\* can see one after the other are those the stored status runs through: the
\* only change is from in_progress to done or to failed, never from failed
\* to done or from done to failed.
ObservedOrder ==
    [][\A id \in DOMAIN tasks :
          tasks'[id].status # tasks[id].status
              => tasks[id].status = "in_progress" /\ Terminal(tasks'[id].status)]_vars

\* C3: the envelope POST /execute answers with is 202 with status in_progress.
ExecuteReturnsInProgress ==
    lastOp.op = "execute" =>
        /\ lastOp.response.code = 202
        /\ lastOp.response.body # {}
        /\ \A e \in lastOp.response.body :
              e.task_id = lastOp.task_id /\ e.status = "in_progress"

\* C3 witness: /execute has just answered and the worker it spawned has not
\* run yet.
ExecuteAnswered ==
    /\ lastOp.op = "execute"
    /\ lastOp.response.code = 202
    /\ workers[lastOp.task_id] = "spawned"

SecretMatches(id, secret) ==
    id \in DOMAIN tasks /\ tasks[id].buyer_secret = secret

\* C4: a poll returns an envelope exactly when the id is stored and the
\* secret is the one stored for that id, and then it is that task's envelope;
\* every other pair is answered NotFound.
GetReturnsOwnTaskOnly ==
    lastOp.op = "poll" =>
        IF SecretMatches(lastOp.task_id, lastOp.secret)
        THEN /\ lastOp.response.code = 200
             /\ \E e \in lastOp.response.body :
                    /\ lastOp.response.body = {e}
                    /\ e.task_id = lastOp.task_id
                    /\ e.buyer_secret = tasks[lastOp.task_id].buyer_secret
                    /\ e.status = tasks[lastOp.task_id].status
        ELSE /\ lastOp.response.code = 404
             /\ lastOp.response.body = {}

\* C4 witness: a poll of a stored task with the secret of another stored task
\* was answered 404.
PolledWithOtherTasksSecret ==
    /\ lastOp.op = "poll"
    /\ lastOp.task_id \in DOMAIN tasks
    /\ \E other \in DOMAIN tasks \ {lastOp.task_id} :
          tasks[other].buyer_secret = lastOp.secret
    /\ lastOp.response.code = 404

\* C5: a poll with a wrong secret for a stored id and a poll of an unknown id
\* get the same answer, 404 TASK_NOT_FOUND with no body and a message that
\* depends on the request alone, and neither changes the task table.
NotFoundIndistinguishable ==
    [][(lastOp'.op = "poll" /\ ~SecretMatches(lastOp'.task_id, lastOp'.secret))
          => /\ lastOp'.response =
                   [code |-> 404, error_code |-> "TASK_NOT_FOUND",
                    message |-> <<"Task not found or invalid secret", lastOp'.task_id>>,
                    body |-> {}]
             /\ tasks' = tasks
             /\ workers' = workers]_vars

\* C5 witness: a stored task polled with a wrong secret, answered 404.
WrongSecretAnswered ==
    /\ lastOp.op = "poll"
    /\ lastOp.task_id \in DOMAIN tasks
    /\ lastOp.secret = WrongSecret
    /\ lastOp.response.code = 404

\* The deadline of task id passes no later than the janitor's next wake-up,
\* and that wake-up lies within the modelled time
SweepDue(id) ==
    /\ id \in DOMAIN tasks
    /\ tasks[id].expires_at <= nextSweep
    /\ nextSweep <= MaxTime

\* C11: with the janitor, the worker start and the clock scheduled fairly,
\* every task whose deadline the janitor's next wake-up covers is eventually
\* done or failed, whether or not its runner ever returns.
EventuallyTerminal ==
    \A id \in TaskIds :
        SweepDue(id) ~> (id \in DOMAIN tasks /\ Terminal(tasks[id].status))

\* C11 witness: the janitor failed a task whose runner has not returned.
SweptWhileRunning ==
    \E id \in DOMAIN tasks :
        /\ workers[id] = "running"
        /\ tasks[id].status = "failed"
        /\ tasks[id].error = {DeadlineError}
        /\ now >= tasks[id].expires_at

\* C12: the task /execute has just created expires at created_at plus the
\* deadline passed to create, so one created with deadline 0 is expired at
\* once.
ExpiresAtCreatedPlusDeadline ==
    lastOp.op = "execute" =>
        \A d \in lastOp.deadline :
            LET task == tasks[lastOp.task_id]
            IN  /\ task.expires_at = task.created_at + d
                /\ d = 0 => now >= task.expires_at

\* The tasks a sweep at this moment is to fail
Due == {id \in DOMAIN tasks :
          tasks[id].status = "in_progress" /\ now >= tasks[id].expires_at}

\* C13: a sweep fails exactly the in_progress tasks with now >= expires_at,
\* with error type DeadlineExceeded, changes nothing else of them and no other
\* task, returns the number of tasks it changed, and leaves no task that a
\* sweep repeated at once would count.
SweepChangesExactlyExpired ==
    [][(lastOp.op = "none" /\ lastOp'.op = "sweep") =>
          /\ DOMAIN tasks' = DOMAIN tasks
          /\ \A id \in Due :
                tasks'[id] = [tasks[id] EXCEPT !.status = "failed",
                                               !.error = {DeadlineError}]
          /\ \A id \in DOMAIN tasks \ Due : tasks'[id] = tasks[id]
          /\ lastOp'.cleaned = Cardinality({id \in DOMAIN tasks : tasks'[id] # tasks[id]})
          /\ lastOp'.cleaned = Cardinality(Due)
          /\ \A id \in DOMAIN tasks' :
                ~(tasks'[id].status = "in_progress" /\ now' >= tasks'[id].expires_at)]_vars

\* C13 witness: a sweep has failed one task and left alone a done task whose
\* deadline has passed as well.
SweptOneKeptDone ==
    /\ lastOp.op = "sweep"
    /\ lastOp.cleaned = 1
    /\ \E id \in DOMAIN tasks :
          tasks[id].status = "failed" /\ tasks[id].error = {DeadlineError}
    /\ \E id \in DOMAIN tasks :
          tasks[id].status = "done" /\ now >= tasks[id].expires_at

\* C14: once a task is done or failed, no step changes its result or error.
TerminalResultImmutable ==
    [][\A id \in DOMAIN tasks :
          Terminal(tasks[id].status)
              => /\ tasks'[id].result = tasks[id].result
                 /\ tasks'[id].error = tasks[id].error]_vars

\* The error the worker records for the exception the runner of id raised
RecordedError(id) == [message |-> raised[id].text, type |-> raised[id].type]

Captured(id) ==
    /\ workers[id] = "finished"
    /\ tasks[id].status = "failed"
    /\ tasks[id].error = {RecordedError(id)}

\* C16 as stated: whatever the runner raised, the worker has ended normally
\* and the task is failed with the exception's type name and text.
RunnerFailureCaptured ==
    \A id \in DOMAIN raised : Captured(id)

\* C16 amended: an exception of class Exception is captured so; one that
\* derives from BaseException only leaves the worker, which has updated
\* nothing: the task is in_progress, or failed by the janitor.
ExceptionCaptured ==
    \A id \in DOMAIN raised :
        IF IsException(raised[id].type)
        THEN Captured(id)
        ELSE /\ workers[id] = "crashed"
             /\ tasks[id].status # "done"
             /\ tasks[id].error \subseteq {DeadlineError}
             /\ tasks[id].execution_time_ms = {}

\* C16 witness: a runner raised ValueError after the janitor had failed its
\* task, and the task shows the ValueError.
RaisedAfterSweep ==
    \E id \in DOMAIN raised :
        /\ Swept
        /\ IsException(raised[id].type)
        /\ tasks[id].error = {RecordedError(id)}
        /\ workers[id] = "finished"

StoredSecrets == {tasks[id].buyer_secret : id \in DOMAIN tasks}

\* C15 as stated: the response to the creation request carries the task's
\* buyer_secret, and no response to a poll carries a task's buyer_secret.
SecretOnlyAtCreation ==
    /\ lastOp.op = "execute" =>
          \A e \in lastOp.response.body :
              e.buyer_secret = tasks[lastOp.task_id].buyer_secret
    /\ lastOp.op = "poll" =>
          \A e \in lastOp.response.body : e.buyer_secret \notin StoredSecrets

\* C15 amended: a response carries a task's buyer_secret only when it answers
\* the creation of that task or a poll that presented that very secret for
\* that task; a poll that presented anything else gets no envelope.
SecretOnlyToHolder ==
    /\ lastOp.op = "execute" =>
          \A e \in lastOp.response.body :
              e.buyer_secret = tasks[lastOp.task_id].buyer_secret
    /\ lastOp.op = "poll" =>
          /\ \A e \in lastOp.response.body :
                /\ e.task_id = lastOp.task_id
                /\ e.buyer_secret = lastOp.secret
                /\ e.buyer_secret = tasks[lastOp.task_id].buyer_secret
          /\ ~SecretMatches(lastOp.task_id, lastOp.secret)
                => lastOp.response.body = {}

\* C15 witness: a poll answered 200 with an envelope that carries the secret.
PollEchoesSecret ==
    /\ lastOp.op = "poll"
    /\ lastOp.response.code = 200
    /\ \E e \in lastOp.response.body : e.buyer_secret \in StoredSecrets

----------------------------------------------------------------------------
(* Properties of the payment middleware *)

CallsOf(name) == {i \in 1..Len(pay.calls) : pay.calls[i].call = name}

VerifiedValid == \E v \in CallsOf("verify") : pay.calls[v].result = "valid"

HandlerSucceeded == \E h \in CallsOf("handler") : IsSuccess(pay.calls[h].result)

Answered == pay.pc = "done" /\ pay.response # {}

Response == CHOOSE x \in pay.response : TRUE

Downstream == CHOOSE x \in pay.downstream : TRUE

\* C6: on the required-payment path the handler is called only after a verify
\* that answered valid, settle only after a handler call that returned 2xx;
\* a 402 of the middleware means the handler was not called, and a handler
\* response outside 2xx means settle was not called.
VerifyHandlerSettleOrder ==
    pay.paid =>
        /\ \A h \in CallsOf("handler") :
              \E v \in CallsOf("verify") : v < h /\ pay.calls[v].result = "valid"
        /\ \A c \in CallsOf("settle") :
              \E h \in CallsOf("handler") : h < c /\ IsSuccess(pay.calls[h].result)
        /\ (Answered /\ Response.code = 402 /\ Response.error # "")
              => CallsOf("handler") = {}
        /\ (\E h \in CallsOf("handler") : ~IsSuccess(pay.calls[h].result))
              => CallsOf("settle") = {}

\* C6 witness: a paid request whose verify failed once in transport, then
\* answered valid, whose handler returned 2xx and which was then settled.
PaidRequestSettled ==
    /\ Answered
    /\ pay.paid
    /\ \E v \in CallsOf("verify") : pay.calls[v].result = "http_error"
    /\ VerifiedValid
    /\ HandlerSucceeded
    /\ CallsOf("settle") # {}

NoPaymentHeader == \A r \in pay.request : PaymentHeader(r).kind \in {"absent", "empty"}

\* C7: a priced operation requested without a payment header is answered 402
\* with at least one entry in accepts.
ChallengeHasAccepts ==
    (Answered /\ pay.paid /\ NoPaymentHeader)
        => Response.code = 402 /\ Len(Response.accepts) >= 1

\* C8 as stated: verify valid and a 2xx handler response give a non-empty
\* X-PAYMENT-RESPONSE header and the handler's body.
ValidPaidResponseHasHeader ==
    (Answered /\ pay.paid /\ VerifiedValid /\ HandlerSucceeded)
        => /\ Response.payment_response # {}
           /\ Response.body = Downstream.body

\* C8 amended: verify valid and a 2xx handler response give the handler's
\* status and body unchanged, and the X-PAYMENT-RESPONSE header exactly when
\* settle answered success (then it is the encoded settlement).
ValidPaidResponseSettled ==
    (Answered /\ pay.paid /\ VerifiedValid /\ HandlerSucceeded)
        => /\ Response.body = Downstream.body
           /\ Response.code = Downstream.code
           /\ \E c \in CallsOf("settle") :
                 Response.payment_response =
                    IF pay.calls[c].result = "success"
                    THEN {EncodeSettlement("success")} ELSE {}

\* C8 witness: a verified, 2xx, settled request answered with the header.
SettledWithHeader ==
    /\ Answered
    /\ pay.paid
    /\ VerifiedValid
    /\ HandlerSucceeded
    /\ Response.payment_response # {}

InvalidAnswers == {v \in CallsOf("verify") : pay.calls[v].result = "invalid"}

TransportFailures == {v \in CallsOf("verify") : pay.calls[v].result = "http_error"}

\* The reason the 402 of an invalid answer carries: the facilitator's, or
\* "Unknown reason" when it gave none
ReasonOf(v) ==
    IF pay.calls[v].reason = "" THEN "Unknown reason" ELSE pay.calls[v].reason

\* The 402 "Invalid payment: {reason}" that answers verify call v, with no
\* handler and no settle call
InvalidPaymentAnswer(v) ==
    /\ Answered
    /\ Response.code = 402
    /\ Response.error = "Invalid payment"
    /\ Response.reason = ReasonOf(v)
    /\ CallsOf("handler") = {}
    /\ CallsOf("settle") = {}

\* C17 as stated: an invalid answer of verify is answered 402 "Invalid
\* payment: {reason}" after exactly one verify call, with no handler and no
\* settle call.
InvalidAnsweredAfterOneVerify ==
    \A v \in InvalidAnswers :
        /\ InvalidPaymentAnswer(v)
        /\ Cardinality(CallsOf("verify")) = 1

\* C17 amended: an invalid answer of verify is the request's last verify call
\* (it is not retried; only transport failures, at most 4, come before it) and
\* is answered 402 "Invalid payment: {reason}", with no handler and no settle
\* call.
InvalidAnswerEndsVerify ==
    \A v \in InvalidAnswers :
        /\ InvalidPaymentAnswer(v)
        /\ v = Len(pay.calls)
        /\ CallsOf("verify") = TransportFailures \cup {v}
        /\ Cardinality(TransportFailures) <= FACILITATOR_VERIFY_MAX_RETRIES - 1

\* C17 witness: verify failed in transport, then answered invalid with a
\* reason, and the request was answered 402 with that reason.
InvalidAfterTransportFailure ==
    /\ Answered
    /\ TransportFailures # {}
    /\ \E v \in InvalidAnswers : pay.calls[v].reason = "Insufficient funds"
    /\ Response.code = 402
    /\ Response.reason = "Insufficient funds"

\* C18: verify is attempted at most 5 times per request, with waits of 1, 2, 4
\* and 8 seconds between consecutive attempts and none after the last; an
\* attempt that returns is the last one; after 5 transport failures the request
\* is answered 402 "Payment verification failed; please try again later." and
\* the handler is not called.
VerifyRetriesBounded ==
    LET failed == Cardinality(TransportFailures)
    IN  /\ Cardinality(CallsOf("verify")) <= 5
        /\ Len(pay.delays) = IF failed >= 5 THEN 4 ELSE failed
        /\ \A i \in 1..Len(pay.delays) : pay.delays[i] = <<1, 2, 4, 8>>[i]
        /\ \A v \in CallsOf("verify") \ TransportFailures :
              \A w \in CallsOf("verify") : w <= v
        /\ failed >= 5 =>
              /\ Answered
              /\ Response.code = 402
              /\ Response.error = "Payment verification failed; please try again later."
              /\ CallsOf("handler") = {}

\* C18 witness: five transport failures, four waits, answered 402.
VerifyRetriesExhausted ==
    /\ Answered
    /\ Cardinality(TransportFailures) = 5
    /\ pay.delays = <<1, 2, 4, 8>>
    /\ Response.code = 402

\* operation id of the request being served, and its pricing entry
ServedOperation == GetOperationId(CHOOSE r \in pay.request : TRUE)

ServedEntry ==
    IF ServedOperation = {} THEN {}
    ELSE payCfg.pricing[CHOOSE o \in ServedOperation : TRUE]

\* The request went through unpaid: no facilitator call, and the answer is
\* the handler's
WentThroughUnpaid ==
    /\ ~pay.paid
    /\ CallsOf("verify") = {}
    /\ CallsOf("settle") = {}
    /\ Answered => Response = Downstream

SettleOnlyAffectsHeader ==
    (Answered /\ VerifiedValid /\ HandlerSucceeded) =>
        \A c \in CallsOf("settle") :
            /\ [Response EXCEPT !.payment_response = {}] = Downstream
            /\ pay.calls[c].result \in {"failure", "exception"} => Response = Downstream

\* C20 witness: settle raised after a 2xx handler response, and the request
\* was answered with the handler's status and body.
SettleRaisedResponseKept ==
    /\ Answered
    /\ VerifiedValid
    /\ HandlerSucceeded
    /\ \E c \in CallsOf("settle") : pay.calls[c].result = "exception"
    /\ Response.code = Downstream.code
    /\ Response.body = Downstream.body

----------------------------------------------------------------------------
(* Properties of the rate limiter *)

\* Accepted requests i <= j of key k that lie at most a window apart
WithinWindow(k, i, j) ==
    /\ i <= j
    /\ accepted[k][j].t - accepted[k][i].t <= rateCfg.window_seconds

\* The accepted requests of key k counted in the counter window of request i
SameCounterWindow(k, i) ==
    {n \in 1..Len(accepted[k]) : accepted[k][n].window_start = accepted[k][i].window_start}

\* C9 as stated: in any interval of duration at most W, one that straddles a
\* counter reset included, at most L requests of a key are accepted
WindowAcceptsAtMostLimit ==
    \A k \in DOMAIN accepted : \A i, j \in 1..Len(accepted[k]) :
        WithinWindow(k, i, j) => j - i + 1 <= accepted[k][i].limit

\* C9 amended: at most L requests of a key are accepted in one counter window
\* (from the request that creates or resets the key's counter to the next
\* reset), and at most 2L - 1 in any interval of duration at most W
FixedWindowAcceptsAtMostLimit ==
    \A k \in DOMAIN accepted :
        /\ \A i \in 1..Len(accepted[k]) :
              Cardinality(SameCounterWindow(k, i)) <= accepted[k][i].limit
        /\ \A i, j \in 1..Len(accepted[k]) :
              WithinWindow(k, i, j) => j - i + 1 <= 2 * accepted[k][i].limit - 1

\* C9 witness: a key has 2L - 1 > L accepted requests within one window
\* length, on both sides of a reset of its counter
BurstAcrossReset ==
    \E k \in DOMAIN accepted : \E i, j \in 1..Len(accepted[k]) :
        /\ WithinWindow(k, i, j)
        /\ accepted[k][i].window_start # accepted[k][j].window_start
        /\ j - i + 1 = 2 * accepted[k][i].limit - 1
        /\ accepted[k][i].limit > 1

\* A step in which the rate limiter counted or denied a request
RateServed == clock' = clock /\ rateOut'.key # {}

\* C21: for a key with limit L >= 1, a request finds the window over and sets
\* the counter to (1, now) and passes; or finds count >= L and is denied with
\* 429, the counter unchanged; or increments the count and passes.  So the
\* requests let through in one counter window are as many as the count, and
\* at most L.
CounterUpdateRule ==
    [][RateServed =>
        LET k == CHOOSE x \in rateOut'.key : TRUE
            r == CHOOSE x \in rateOut'.request : TRUE
            L == CHOOSE x \in GetLimit(rateCfg.limits, r.path) : TRUE
            seen == k \in DOMAIN counters
            count == IF seen THEN counters[k].count ELSE 0
            start == IF seen THEN counters[k].window_start ELSE clock
            let_through == IF k \in DOMAIN accepted'
                           THEN {i \in 1..Len(accepted'[k]) :
                                   accepted'[k][i].window_start = counters'[k].window_start}
                           ELSE {}
        IN  /\ L >= 1
            /\ IF clock - start > rateCfg.window_seconds
               THEN rateOut'.passed /\ counters'[k] = Counter(1, clock)
               ELSE IF count >= L
               THEN /\ ~rateOut'.passed
                    /\ \E x \in rateOut'.response : x.code = 429
                    /\ counters' = counters
               ELSE rateOut'.passed /\ counters'[k] = Counter(count + 1, start)
            /\ Cardinality(let_through) = counters'[k].count
            /\ counters'[k].count <= L
    ]_vars

\* C21 witness: the first L requests of a key passed in one window and the
\* next one was denied.
DeniedAfterLimit ==
    \E k \in DOMAIN counters :
        /\ rateOut.key = {k}
        /\ ~rateOut.passed
        /\ Len(accepted[k]) = counters[k].count
        /\ \A i \in 1..Len(accepted[k]) : counters[k].count = accepted[k][i].limit

\* C22: a request on a key that let no request through for more than W seconds
\* (so all the more one that saw no request at all for that long) starts a new
\* window and passes, whatever the count was.
QuietKeyStartsOver ==
    [][RateServed =>
        LET k == CHOOSE x \in rateOut'.key : TRUE
        IN  (/\ k \in DOMAIN accepted
             /\ clock - accepted[k][Len(accepted[k])].t > rateCfg.window_seconds)
                => rateOut'.passed /\ counters'[k] = Counter(1, clock)
    ]_vars

\* C22 witness: a key used up its limit, stayed quiet for more than W seconds
\* and its next request passed.
PassedAfterQuietWindow ==
    \E k \in DOMAIN accepted :
        LET n == Len(accepted[k])
        IN  /\ n >= 2
            /\ rateOut.key = {k}
            /\ rateOut.passed
            /\ accepted[k][n].t = clock
            /\ clock - accepted[k][n - 1].t > rateCfg.window_seconds
            /\ Cardinality(SameCounterWindow(k, n - 1)) = accepted[k][n - 1].limit

\* The key a request is to be counted under: its secret on a path with the
\* segment tasks, else its client address and path
SecretKey(secret) == <<"secret", secret>>

KeyFor(r) ==
    IF r.secret # {} /\ \E i \in 1..Len(r.path) : r.path[i] = "tasks"
    THEN SecretKey(CHOOSE x \in r.secret : TRUE)
    ELSE <<"ip", IF r.host = {} THEN "unknown" ELSE CHOOSE x \in r.host : TRUE, r.path>>

\* Key k has used up limit l in the window that holds now
UsedUp(k, l) ==
    /\ k \in DOMAIN counters
    /\ counters[k].count >= l
    /\ clock - counters[k].window_start <= rateCfg.window_seconds

AppliedLimit ==
    IF rateOut.key = {} THEN {}
    ELSE LET k == CHOOSE x \in rateOut.key : TRUE
         IN  IF rateOut.passed THEN {accepted[k][Len(accepted[k])].limit}
             ELSE {x.message[2] : x \in rateOut.response}

\* A regex key matches by full match of the whole path, another key as a prefix
FullMatches(pattern, path) ==
    IF ~pattern.regex THEN HasPrefix(path, pattern.segs)
    ELSE IF pattern.tail = "/.*"
    THEN HasPrefix(path, pattern.segs) /\ Len(path) > Len(pattern.segs)
    ELSE path = pattern.segs

\* The limit of a path as stated: the rule equal to the path, else the first
\* rule in configuration order that matches
StatedLimit(limits, path) ==
    LET exact == {i \in 1..Len(limits) :
                    ~limits[i].pattern.regex /\ limits[i].pattern.segs = path}
        hits == {i \in 1..Len(limits) : FullMatches(limits[i].pattern, path)}
    IN  IF exact # {} THEN {limits[i].limit : i \in exact}
        ELSE IF hits # {} THEN {limits[i].limit : i \in {j \in hits : \A h \in hits : j <= h}}
        ELSE {}

\* C25: the limit applied to a request is that of the rule equal to its path,
\* else that of the first rule in configuration order that matches it, a
\* regex rule matching by full match of the whole path and any other as a
\* prefix; with no matching rule the request passes uncounted.
LimitOfFirstFullMatch ==
    \A r \in rateOut.request :
        /\ AppliedLimit = StatedLimit(rateCfg.limits, r.path)
        /\ AppliedLimit = {} => rateOut.passed

\* The handlers the limiter has checked under key k, and those it let through
CheckedOn(k) == {h \in Handlers : inflight[h].key = {k}}

PassedOn(k) == {h \in CheckedOn(k) : inflight[h].passed}

\* The limit of the path the handlers of key k requested
LimitOn(k) ==
    LET h == CHOOSE x \in CheckedOn(k) : TRUE
        r == CHOOSE x \in inflight[h].request : TRUE
    IN  CHOOSE l \in GetLimit(rateCfg.limits, r.path) : TRUE

\* C23: of the N requests of one key that concurrent handlers have put through
\* the limiter inside one window, L are let through when N > L (all of them
\* otherwise) and the other N - L are denied with 429, in every interleaving.
ConcurrentAcceptsExactlyLimit ==
    \A k \in {GetKey(r) : r \in ConcRequests} :
        CheckedOn(k) # {} =>
            /\ Cardinality(PassedOn(k)) =
                  IF Cardinality(CheckedOn(k)) > LimitOn(k) THEN LimitOn(k)
                  ELSE Cardinality(CheckedOn(k))
            /\ \A h \in CheckedOn(k) \ PassedOn(k) :
                  \E x \in inflight[h].response : x.code = 429

\* C23 witness: all the handlers arrived before any was checked, they share a
\* key whose limit is below their number, L of them are inside call_next and
\* the others were denied.
ConcurrentOverLimit ==
    \E k \in {GetKey(r) : r \in ConcRequests} :
        /\ CheckedOn(k) = Handlers
        /\ \A h \in Handlers : inflight[h].arrival = << >>
        /\ LimitOn(k) < Cardinality(Handlers)
        /\ Cardinality({h \in Handlers : inflight[h].pc = "handler"}) = LimitOn(k)
        /\ \A h \in Handlers \ PassedOn(k) : inflight[h].pc \in {"denied", "done"}

----------------------------------------------------------------------------
(* Properties of the middleware stack *)

Visited(who) == \E i \in 1..Len(flight.trace) : flight.trace[i] = who

FirstVisit(who) == CHOOSE i \in 1..Len(flight.trace) : flight.trace[i] = who

FacilitatorCalled == \E i \in 1..Len(pay.calls) : pay.calls[i].call \in {"verify", "settle"}

\* The request in flight is to a path that has a rate limit
OnLimitedPath ==
    \E r \in flight.request : GetLimit(rateCfg.limits, r.path) # {}

\* The rate limiter has handled the request in flight
CountedOrDenied ==
    \E r \in flight.request : rateOut.request = {RateRequestOf(r)} /\ rateOut.key # {}

\* C10: the rate limiter handles a request before the payment middleware does;
\* a request answered 429 has had no payment processing and no facilitator
\* call, and a request to a rate-limited path answered 402 has been counted
RateLimitBeforePayment ==
    flight.pc = "done" =>
        LET resp == CHOOSE x \in flight.response : TRUE
        IN  /\ Visited(RateLimitMiddleware) /\ Visited(X402WrapperMiddleware)
                => FirstVisit(RateLimitMiddleware) < FirstVisit(X402WrapperMiddleware)
            /\ resp.code = 429
                => ~Visited(X402WrapperMiddleware) /\ ~FacilitatorCalled
            /\ resp.code = 402 /\ OnLimitedPath
                => Visited(RateLimitMiddleware) /\ CountedOrDenied

----------------------------------------------------------------------------
(* Properties of the marketplace registry *)

ProfilesOf(registry) == {registry[i].profile : i \in 1..Len(registry)}

\* C26: no two stored profiles share a base_url, no two share a non-empty
\* agent_name, and every profile is stored once, under its own agent_id.
RegistryUnique ==
    /\ \A i, j \in 1..Len(agents) :
          i # j =>
              /\ agents[i].key # agents[j].key
              /\ agents[i].profile.base_url # agents[j].profile.base_url
              /\ agents[i].profile.agent_name # ""
                    => agents[i].profile.agent_name # agents[j].profile.agent_name
    /\ \A i \in 1..Len(agents) : agents[i].key = agents[i].profile.agent_id

\* A step that serves POST /register
Posted == clock' = clock /\ marketOut'.op = "POST /register"

\* C27 as stated: after a POST /register answered 200, every later POST of
\* the same request answers 409 and leaves the registry as it was.
RepeatedRegisterAnswers409 ==
    [][Posted =>
        \A request \in marketOut'.request :
            request \in answered200 =>
                /\ marketOut'.code = 409
                /\ agents' = agents
                /\ disk' = disk
    ]_vars

\* C27 amended: after a POST /register answered 200, every later POST of the
\* same request answers 429 when the rate limiter denies it and 409 otherwise,
\* and leaves the registry as it was.
RepeatedRegisterNeverAccepted ==
    [][Posted =>
        \A request \in marketOut'.request :
            request \in answered200 =>
                /\ marketOut'.code = IF rateOut'.passed THEN 409 ELSE 429
                /\ agents' = agents
                /\ disk' = disk
    ]_vars

\* C27 witness: a request without agent_id that was answered 200 was posted
\* again and answered 409.
RegisteredTwice ==
    /\ marketOut.code = 409
    /\ \E request \in marketOut.request :
          request \in answered200 /\ request.agent_id = {}

\* C29: while every write of the file has succeeded, a repository loaded from
\* the file holds the profiles the running one holds; a repository loaded
\* from a missing or malformed file is empty.
FileRoundTrips ==
    /\ faults = 0 => ProfilesOf(LoadAgents(disk)) = ProfilesOf(agents)
    /\ (marketOut.op = "restart" /\ disk.kind # "json") => agents = << >>

----------------------------------------------------------------------------
(* Properties of the registration service *)

Succeeded(reply) == reply.kind = "response" /\ reply.status \in {200, 409}

\* C28: register, when enabled, posts at most retry_attempts times; a response
\* with status 200 or 409 is the last, register returns True and is_registered
\* holds; any other answer is followed by a sleep except after the last
\* attempt, and after retry_attempts of them register returns False with
\* is_registered false; when disabled it returns True and posts nothing.
RegisterRetriesThenGivesUp ==
    LET n == Len(reg.posts)
        failed == {i \in 1..n : ~Succeeded(reg.posts[i])}
    IN  /\ n <= reg.settings.retry_attempts
        /\ ~reg.settings.enabled => n = 0 /\ reg.pc \in {"idle", "returned"}
        /\ (~reg.settings.enabled /\ reg.pc = "returned") => reg.returned = {TRUE}
        /\ \A i \in 1..n :
              Succeeded(reg.posts[i]) =>
                  /\ i = n
                  /\ reg.pc = "returned"
                  /\ reg.returned = {TRUE}
                  /\ reg.registered
        /\ reg.sleeps <= Cardinality(failed)
        /\ reg.sleeps < reg.settings.retry_attempts
        /\ (reg.settings.enabled /\ Cardinality(failed) = reg.settings.retry_attempts) =>
              /\ reg.pc = "returned"
              /\ reg.returned = {FALSE}
              /\ ~reg.registered
              /\ reg.sleeps = reg.settings.retry_attempts - 1
        /\ reg.returned = {FALSE} => Cardinality(failed) = reg.settings.retry_attempts

----------------------------------------------------------------------------
(* Properties of the janitor loop *)

\* C31: an error of a sweep is logged and leaves the loop running, due again
\* one interval later; the loop ends only on its cancellation at shutdown,
\* and once cancelled it ends without another sweep.
JanitorSurvivesErrors ==
    [][/\ lifespan'.logged # lifespan.logged =>
            /\ lifespan'.logged = lifespan.logged + 1
            /\ lifespan'.janitor = "running"
            /\ nextSweep' = now + CleanupIntervalSeconds
       /\ lifespan'.janitor # lifespan.janitor =>
            \/ lifespan.pc = "serving" /\ lifespan'.janitor = "cancelling"
            \/ lifespan.janitor = "cancelling" /\ lifespan'.janitor = "cancelled"
       /\ lifespan.janitor # "running" => nextSweep' = nextSweep
      ]_vars

\* C31 witness: after an error of a sweep was logged, a later sweep has just
\* failed a task that is past its deadline.
SweptAfterError ==
    /\ lifespan.logged > 0
    /\ lastOp.op = "sweep"
    /\ lastOp.cleaned > 0

----------------------------------------------------------------------------
(* Properties of the shutdown *)

Running(id) == workers[id] \in {"spawned", "running"}

\* C30: the shutdown signals the janitor to exit and does not complete while
\* a tracked worker is running, unless a grace period has gone by since it
\* began.
ShutdownAwaitsWorkers ==
    lifespan.pc = "stopped" =>
        /\ lifespan.janitor = "cancelled"
        /\ lifespan.ended = lifespan.began => \A id \in DOMAIN workers : ~Running(id)

----------------------------------------------------------------------------
(* Properties of polling *)

\* A step that serves GET /tasks/{task_id}
Polled == lastOp.op # "poll" /\ lastOp'.op = "poll"

----------------------------------------------------------------------------
(* Properties of TaskRepository.update_task *)

\* A step that ends with update_task as the latest call
Updated == repoCall'.op = "update_task" /\ now' = now

\* C32: an update of a task that is done or failed stores the status, result,
\* error, execution_time_ms and tools_used of the call (nothing where the call
\* passes none) and leaves the rest of the table; the same update made again
\* leaves the table as the first left it.
UpdateOverwritesTerminal ==
    [][Updated =>
        \A a \in repoCall'.args :
            LET id == repoCall'.task_id IN
            (id \in DOMAIN tasks /\ Terminal(tasks[id].status)) =>
                /\ tasks' = [tasks EXCEPT ![id] =
                                [@ EXCEPT !.status = a.status,
                                          !.result = a.result,
                                          !.error = a.error,
                                          !.execution_time_ms = a.ms,
                                          !.tools_used = a.tools]]
                /\ (repoCall.op = "update_task" /\ repoCall.task_id = id
                        /\ repoCall.args = {a}) => tasks' = tasks
    ]_vars

\* C32 witness: a task that had failed is done after an update, with the
\* result of the update and no error.
FailedTaskUpdatedToDone ==
    /\ repoCall.op = "update_task"
    /\ repoCall.was = {"failed"}
    /\ tasks[repoCall.task_id].status = "done"
    /\ tasks[repoCall.task_id].error = {}

\* C34: an update of an id the table does not hold leaves the table as it was.
UnknownUpdateChangesNothing ==
    [][(Updated /\ repoCall'.task_id \notin DOMAIN tasks) => tasks' = tasks]_vars

\* C34 witness: update_task was called with an id the table did not hold,
\* while it held a task.
UpdatedUnknownId ==
    /\ repoCall.op = "update_task"
    /\ repoCall.was = {}
    /\ repoCall.task_id \notin DOMAIN tasks
    /\ tasks # << >>

----------------------------------------------------------------------------
(* Properties of the envelope *)

\* C33: in the envelope of a 202 or of a poll, data has entries only when the
\* status is done and error is set only when the status is failed; the
\* envelope of a 202 is in_progress with data = {} and error = null.
EnvelopeFieldsFollowStatus ==
    \A e \in lastOp.response.body :
        /\ e.data.keys # {} => e.status = "done"
        /\ e.error # {} => e.status = "failed"
        /\ lastOp.op = "execute" =>
              e.status = "in_progress" /\ e.data.keys = {} /\ e.error = {}

----------------------------------------------------------------------------
(* Properties of concurrent create_agent calls *)

Calls == {creates.calls[i] : i \in 1..Len(creates.calls)}

AllEnded == \A c \in Calls : c.pc \in {"returned", "raised"}

\* Every call is for one agent: one agent_id and one base_url
SameAgent ==
    \A c, d \in Calls :
        c.profile.agent_id = d.profile.agent_id /\ c.profile.base_url = d.profile.base_url

\* The calls are for agents that differ pairwise in id, name and URL
DistinctAgents ==
    \A i, j \in 1..Len(creates.calls) :
        i # j =>
            LET p == creates.calls[i].profile
                q == creates.calls[j].profile
            IN  /\ p.agent_id # q.agent_id
                /\ p.agent_name # q.agent_name
                /\ p.base_url # q.base_url

Won == {i \in 1..Len(creates.calls) : creates.calls[i].pc = "returned"}

\* C35: when concurrent create_agent calls on an empty registry are all for
\* one agent, exactly one returns and every other raises
\* AgentAlreadyRegisteredError, in whatever order they take the lock; when
\* they are for pairwise distinct agents, all return.
ConcurrentCreatesOneWins ==
    (AllEnded /\ creates.calls # << >>) =>
        /\ SameAgent =>
              /\ Cardinality(Won) = 1
              /\ \A c \in Calls :
                    c.pc = "raised" => c.exc = "AgentAlreadyRegisteredError"
              /\ Len(agents) = 1
        /\ DistinctAgents => Cardinality(Won) = Len(creates.calls)

\* C35 witness: MaxCalls calls for one agent have ended, and the one that
\* returned was not the first to call.
LaterCallWon ==
    /\ AllEnded
    /\ SameAgent
    /\ Len(creates.calls) = MaxCalls
    /\ 1 \notin Won
    /\ Won # {}

----------------------------------------------------------------------------
(* Properties of a create_agent call that fails *)

\* C39: a create_agent call that raises, for a duplicate or for a write of
\* the file that failed, leaves _agents and the file as they were.
FailedCreateChangesNothing ==
    [][(marketOut'.op = "create_agent" /\ marketOut'.raised # "") =>
          agents' = agents /\ disk' = disk]_vars

----------------------------------------------------------------------------
(* Properties of a limit of 0 *)

\* The limit _get_limit finds for the request just served
LookedUp == GetLimit(rateCfg.limits, (CHOOSE r \in rateOut'.request : TRUE).path)

\* C40: a request whose path has no rule, or a rule with limit 0, is passed on
\* and leaves every counter as it was; a counter changes, or a request is
\* denied, only under a limit above 0.
ZeroLimitIsNoRule ==
    [][(rateOut'.request # {} /\ clock' = clock) =>
          /\ LookedUp \in {{}, {0}} =>
                /\ rateOut'.passed
                /\ rateOut'.response = {}
                /\ rateOut'.key = {}
                /\ counters' = counters
          /\ (counters' # counters \/ ~rateOut'.passed) => \E l \in LookedUp : l > 0
    ]_vars

\* C40 witness: a request under a rule with limit 0 has been passed on while
\* another rule of the same limiter has counted requests.
ZeroRulePassedOn ==
    /\ rateOut.passed
    /\ \E r \in rateOut.request : GetLimit(rateCfg.limits, r.path) = {0}
    /\ \E k \in DOMAIN counters : counters[k].count > 0

----------------------------------------------------------------------------
(* Properties of BuyerSDK.poll_task_status *)

\* C36: poll_task_status polls no more once a poll has shown done or failed,
\* returns a result whose status is done or failed, and with max_polls = n >= 1
\* makes at most n polls.
PollReturnsFinalResult ==
    /\ \A i \in 1..(Len(poller.seen) - 1) : poller.seen[i] = "in_progress"
    /\ \A n \in poller.max_polls : n >= 1 => Len(poller.seen) <= n
    /\ poller.pc = "returned" => \E status \in poller.returned : status \in {"done", "failed"}

----------------------------------------------------------------------------
(* Properties of the settlement call of the payment middleware *)

\* C37: within one request facilitator.settle is called at most once, with
\* the (payment, requirement) pair an earlier facilitator.verify of the request
\* answered valid for, and the requirement is one of those built for the
\* operation, with the payload's scheme and network.
SettlesOnceWithVerifiedPair ==
    /\ Cardinality(CallsOf("settle")) <= 1
    /\ \A c \in CallsOf("settle") :
          /\ Cardinality(pay.calls[c].args) = 1
          /\ \E v \in CallsOf("verify") :
                /\ v < c
                /\ pay.calls[v].result = "valid"
                /\ pay.calls[v].args = pay.calls[c].args
          /\ \A a \in pay.calls[c].args :
                /\ \E i \in 1..Len(pay.requirements) : pay.requirements[i] = a[2]
                /\ a[2].network = a[1].network
                /\ a[2].scheme = a[1].scheme

\* A payment on the network of the second requirement has been settled after
\* a verification that was retried
SettledSecondRequirement ==
    /\ Len(pay.requirements) = 2
    /\ Cardinality(CallsOf("verify")) > 1
    /\ \E c \in CallsOf("settle") :
          \A a \in pay.calls[c].args :
              a[2] = pay.requirements[2] /\ a[2] # pay.requirements[1]

====
